---- MODULE Spec2Model ----
(***************************************************************************)
(* A model of the quiz pipeline of smartlearn-empower-futures:             *)
(*   - the response parser of QuizService (deserializeQuestions,           *)
(*     parseQuestionsFlexible, parseTextFormatQuestions),                  *)
(*   - quiz generation (startQuiz, generateQuizInChunks),                  *)
(*   - quiz submission and scoring (submitQuiz).                           *)
(* Each part has its own specification over the shared variables.          *)
(***************************************************************************)
EXTENDS Integers, Sequences, FiniteSets, TLC

(***************************************************************************)
(* Bounds of the model.                                                    *)
(***************************************************************************)
MaxOptions == 5
MaxItems == 2
MaxNumQuestions == 4
MaxSections == 4
MaxReturned == 3
MaxCalls == 2
MaxAttempts == 2
MaxQuizQuestions == 2
MaxAnswers == 2
MaxCourseSections == 3
MaxTemplates == 3
MaxTemplateCalls == 3
MaxStreamChunks == 3
MaxEvents == 3
MaxResults == 3
MaxTopCount == 2
MaxGenerations == 2

(***************************************************************************)
(* State.                                                                  *)
(*   Parser: the response handed to parseQuestionsFlexible, what it        *)
(*   returned, and where the call is.                                      *)
(***************************************************************************)
VARIABLES response, parsed, ppc

parserVars == <<response, parsed, ppc>>

(***************************************************************************)
(*   Generation (one startQuiz call): its arguments and the course's       *)
(*   analysed content (numQuestions, the number of valid sections, the     *)
(*   length of the formatted content), the loop state of                   *)
(*   generateQuizInChunks (i, allQuestions), the sub-calls issued so far,  *)
(*   questionsJson, the parsed questionsData, the quiz returned, the error *)
(*   thrown to the caller, and where the call is.                          *)
(*   Store: the quizResults collection.                                    *)
(***************************************************************************)
VARIABLES numQuestions, sectionCount, contentLength, i, allQuestions, subCalls,
          questionsJson, questionsData, quiz, startError, gpc

genVars == <<numQuestions, sectionCount, contentLength, i, allQuestions, subCalls,
             questionsJson, questionsData, quiz, startError, gpc>>

(***************************************************************************)
(*   Store: the quizResults and quizAnswers collections, and the clock     *)
(*   that new Date() reads.                                                *)
(*   Submission: the submitQuiz calls, each with its arguments, its locals *)
(*   (the loaded quizResult, questions, the position in the loop over the  *)
(*   submitted answers, correctCount, attemptedAt) and what it returned or *)
(*   threw.                                                                *)
(***************************************************************************)
VARIABLES quizResults, quizAnswers, now, calls

storeVars == <<quizResults, quizAnswers, now>>

(***************************************************************************)
(*   Content validation (the first part of startQuiz): the course's        *)
(*   sections, each by the length of its trimmed content, the result of    *)
(*   validateForQuizGeneration, the error thrown inside startQuiz as its   *)
(*   lines, the error that reaches the caller, and where the call is.      *)
(***************************************************************************)
VARIABLES course, validation, thrownMessage, callerMessage, vpc

validationVars == <<course, validation, thrownMessage, callerMessage, vpc>>

(***************************************************************************)
(*   Prompt templates of one user: the userPromptTemplates documents by    *)
(*   template id (whether the document exists, its isDefault flag and its  *)
(*   usageCount), the                                                      *)
(*   calls of PromptTemplateService in progress, one per caller (the       *)
(*   operation, its arguments, the documents its query returned, those it  *)
(*   has not yet unset, the usageCount it read, how it ended), and the     *)
(*   number of calls made.                                                 *)
(***************************************************************************)
VARIABLES templates, tcalls, tcount

templateVars == <<templates, tcalls, tcount>>

(***************************************************************************)
(*   Completion proxy (one invocation of the handler of openai-proxy.js):  *)
(*   where the handler is, the seconds elapsed since it was invoked, the   *)
(*   number of chunks of the upstream stream it has read, and the status   *)
(*   code it returned (0: none); the requestBody it forwards, the chunks   *)
(*   of the upstream's response body, and the handler's buffer and         *)
(*   fullContent, as sequences of characters.                              *)
(***************************************************************************)
VARIABLES hpc, elapsed, received, statusCode, requestBody, upstream, buffer,
          fullContent

proxyVars == <<hpc, elapsed, received, statusCode, requestBody, upstream, buffer,
               fullContent>>

(***************************************************************************)
(*   Content formatting (the second part of startQuiz): the sections of    *)
(*   the course as loaded, the sections that analyzeCourseContent kept,    *)
(*   and what formatContentForPrompt returned: the length of the string    *)
(*   and the sections rendered in it, by their index in its argument.      *)
(***************************************************************************)
VARIABLES courseContent, sectionsWithSubtitles, contentForPrompt

formatVars == <<courseContent, sectionsWithSubtitles, contentForPrompt>>

(***************************************************************************)
(*   Leaderboard (one getLeaderboard call): its arguments (courseId, ""    *)
(*   for none, and topCount), the entries it returned, and where it is.    *)
(***************************************************************************)
VARIABLES boardArgs, leaderboard, bpc

boardVars == <<boardArgs, leaderboard, bpc>>

(***************************************************************************)
(*   The quiz page (the AIQuizGenerator component): its state (quiz,       *)
(*   translatedQuiz, enableTranslation, isTranslating, generating,         *)
(*   answers, quizCompleted, and the number of quizzes generated), and the *)
(*   translateQuiz call in progress: the quiz it was given, and the result *)
(*   of each translateText call that has returned ("": none yet).          *)
(***************************************************************************)
VARIABLES ui, job

uiVars == <<ui, job>>

appVars == <<formatVars, boardVars, uiVars>>

serviceVars == <<validationVars, templateVars, proxyVars, appVars>>

vars == <<parserVars, genVars, storeVars, calls, serviceVars>>

(***************************************************************************)
(* Small helpers on sequences.                                             *)
(***************************************************************************)
Range(s) == {s[k] : k \in DOMAIN s}

SeqsUpTo(S, n) == UNION {[1..k -> S] : k \in 0..n}

Min(a, b) == IF a < b THEN a ELSE b

\* Array.prototype.filter, keeping the order of the kept elements.
RECURSIVE FilterSeq(_, _)
FilterSeq(s, keep) ==
    IF s = <<>> THEN <<>>
    ELSE IF Head(s) \in keep THEN <<Head(s)>> \o FilterSeq(Tail(s), keep)
    ELSE FilterSeq(Tail(s), keep)

\* Array.prototype.slice(0, n)
Slice0(s, n) == IF n <= 0 THEN <<>> ELSE SubSeq(s, 1, Min(n, Len(s)))

(***************************************************************************)
(* Questions as the completion service returns them (the objects of the   *)
(* JSON array): id, text, section and an options array of any length with  *)
(* any number of isCorrect flags.                                          *)
(***************************************************************************)
OptionTexts == <<"foo", "bar", "baz", "qux", "quux", "corge", "grault">>

MkOption(k, correct, expl) ==
    [id |-> k, text |-> OptionTexts[k], isCorrect |-> correct, explanation |-> expl]

MkQuestion(qid, nOpts, correctSet) ==
    [id |-> qid, text |-> "What is X?", section |-> "Intro",
     options |-> [k \in 1..nOpts |->
                     MkOption(k, k \in correctSet,
                              IF k \in correctSet THEN "because" ELSE "")]]

\* The shapes a returned question can have: 3..MaxOptions options, and none,
\* one or two of them flagged correct.
QuestionShapes ==
    {MkQuestion(7, n, c) : n \in 3..MaxOptions, c \in {{}, {2}, {1, 2}}}

WellFormed(q) ==
    /\ Len(q.options) = 4
    /\ Cardinality({k \in DOMAIN q.options : q.options[k].isCorrect}) = 1

(***************************************************************************)
(* The raw completion text.  A response is JSON text (the question objects *)
(* `items`, separated by commas, possibly wrapped in [ ], possibly inside  *)
(* a ``` code fence, possibly with a trailing comma before the closing     *)
(* bracket), or free text made of "Question N:" blocks of lines, or any    *)
(* other text.                                                             *)
(***************************************************************************)
JsonResponse(items, fenced, bracketed, trailingComma) ==
    [kind |-> "json", fenced |-> fenced, bracketed |-> bracketed,
     trailingComma |-> trailingComma, items |-> items, blocks |-> <<>>]

TextResponse(blocks, fenced) ==
    [kind |-> "text", fenced |-> fenced, bracketed |-> FALSE,
     trailingComma |-> FALSE, items |-> <<>>, blocks |-> blocks]

OtherResponse ==
    [kind |-> "other", fenced |-> FALSE, bracketed |-> FALSE,
     trailingComma |-> FALSE, items |-> <<>>, blocks |-> <<>>]

\* JSON.stringify of an array of questions
JSONStringify(questions) == JsonResponse(questions, FALSE, TRUE, FALSE)

\* rawJson.replace(/^```(?:json)?\s*|\s*```$/g, '').trim()
StripFence(raw) == [raw EXCEPT !.fenced = FALSE]

\* if (!clean.startsWith('[')) clean = '[' + clean + ']'
EnsureArray(raw) == [raw EXCEPT !.bracketed = TRUE]

\* Texts by their characters.  A text of the model is a string; the texts
\* below are spelled character by character (a run of other characters is one
\* element, "<fence>" stands for three backquotes), every other text is a
\* single run without ',', ']' or '}'.
SpelledTexts ==
    {<<"a", ",", " ", "b">>, <<"[", "1", ",", " ", "]">>, <<"{", "x", ",", "}">>,
     <<"[", "x", "]", " ", "{", "y", "}">>, <<"<fence>", "json", " ", "x", " ", "<fence>">>}

RECURSIVE Concat(_)
Concat(chars) == IF chars = <<>> THEN "" ELSE Head(chars) \o Concat(Tail(chars))

Spelling(text) ==
    IF \E chars \in SpelledTexts : Concat(chars) = text
    THEN CHOOSE chars \in SpelledTexts : Concat(chars) = text
    ELSE <<text>>

\* The position of the first character at or after p that is not white space
\* (Len(chars) + 1 when there is none).
RECURSIVE SkipSpace(_, _)
SkipSpace(chars, p) ==
    IF p <= Len(chars) /\ chars[p] = " " THEN SkipSpace(chars, p + 1) ELSE p

\* replace(/,\s*([}\]])/g, '$1') on a run of characters, from position p on:
\* a comma, the white space after it and a closing bracket or brace become
\* the bracket or brace alone.
RECURSIVE ReplaceFrom(_, _)
ReplaceFrom(chars, p) ==
    IF p > Len(chars) THEN <<>>
    ELSE LET q == SkipSpace(chars, p + 1)
         IN  IF chars[p] = "," /\ q <= Len(chars) /\ chars[q] \in {"}", "]"}
             THEN <<chars[q]>> \o ReplaceFrom(chars, q + 1)
             ELSE <<chars[p]>> \o ReplaceFrom(chars, p + 1)

\* clean.replace(/,\s*([}\]])/g, '$1') on the whole text: the trailing comma
\* of the array goes, and so does every such comma inside a string value.
DropTrailingCommas(raw) ==
    LET DropCommasInText(text) == Concat(ReplaceFrom(Spelling(text), 1))
    IN
    [raw EXCEPT
       !.trailingComma = FALSE,
       !.items = [k \in DOMAIN @ |->
           [@[k] EXCEPT
              !.text = DropCommasInText(@),
              !.options = [j \in DOMAIN @ |->
                  [@[j] EXCEPT !.text = DropCommasInText(@),
                               !.explanation = DropCommasInText(@)]]]]]

\* JSON.parse: throws a SyntaxError on anything but well-formed JSON.  The
\* text handed to it always starts with '[', so a successful parse is an array.
JSONParse(clean) ==
    IF clean.kind = "json" /\ ~clean.fenced /\ clean.bracketed /\ ~clean.trailingComma
    THEN [threw |-> FALSE, isArray |-> TRUE, value |-> clean.items]
    ELSE [threw |-> TRUE, isArray |-> FALSE, value |-> <<>>]

\* deserializeQuestions with the way it ends: its own try/catch swallows the
\* parse error and returns [], so it never throws to its caller.
DeserializeOutcome(rawJson) ==
    LET p == JSONParse(DropTrailingCommas(EnsureArray(StripFence(rawJson))))
    IN  IF p.threw
        THEN [threw |-> FALSE, value |-> <<>>]
        ELSE [threw |-> FALSE, value |-> IF p.isArray THEN p.value ELSE <<>>]

deserializeQuestions(rawJson) == DeserializeOutcome(rawJson).value
(***************************************************************************)
(* Free text.  A block is what follows one "Question N:" marker: its       *)
(* trimmed, non-empty lines.  A line is plain text (with an optional       *)
(* leading numbering such as "1. "), "Section: ...", an option line        *)
(* "<letter>) ...", "Correct Answer: <letter>" or "Explanation: ...".      *)
(***************************************************************************)
Letters == <<"A", "B", "C", "D", "E", "F", "G">>

\* charCodeAt(0) - 65
LetterIndex(letter) == (CHOOSE k \in DOMAIN Letters : Letters[k] = letter) - 1

Line(tag, num, letter, body) == [tag |-> tag, num |-> num, letter |-> letter, body |-> body]

\* line.replace(/^\d+[.:]?\s*/, '').trim() on the first line of a block
StripNumbering(line) ==
    IF line.tag = "plain" THEN line.body
    ELSE IF line.tag = "option" THEN line.letter \o ") " \o line.body
    ELSE IF line.tag = "Correct Answer:" THEN line.tag \o " " \o line.letter
    ELSE line.tag \o " " \o line.body

\* /^[A-D]\)/.test(line)
IsOptionLine(line) == line.tag = "option" /\ line.letter \in {"A", "B", "C", "D"}

\* lines.find(line => line.startsWith(tag)): the first such line, if any
FindLine(lines, tag) ==
    LET hits == {k \in DOMAIN lines : lines[k].tag = tag}
    IN  IF hits = {} THEN <<>>
        ELSE <<lines[CHOOSE k \in hits : \A j \in hits : k <= j]>>

\* The body of the forEach callback of parseTextFormatQuestions: the question
\* of one block, or nothing when the block has no question text.
ParseTextBlock(lines, index) ==
    LET questionText == IF lines = <<>> THEN "" ELSE StripNumbering(lines[1])
        sectionLine == FindLine(lines, "Section:")
        section == IF sectionLine = <<>> \/ sectionLine[1].body = ""
                   THEN "General" ELSE sectionLine[1].body
        optionLines == FilterSeq(lines, {l \in Range(lines) : IsOptionLine(l)})
        correctAnswerLine == FindLine(lines, "Correct Answer:")
        correctIndex == IF correctAnswerLine = <<>> \/ correctAnswerLine[1].letter = ""
                        THEN 0 ELSE LetterIndex(correctAnswerLine[1].letter)
        explanationLine == FindLine(lines, "Explanation:")
        explanation == IF explanationLine = <<>> THEN "" ELSE explanationLine[1].body
        hit == correctIndex + 1 \in DOMAIN optionLines
        options == [k \in DOMAIN optionLines |->
                       [id |-> k, text |-> optionLines[k].body,
                        isCorrect |-> hit /\ k = correctIndex + 1,
                        explanation |-> IF hit /\ k = correctIndex + 1
                                        THEN explanation ELSE ""]]
    IN  IF questionText = "" THEN <<>>
        ELSE <<[id |-> index + 1, text |-> questionText, section |-> section,
                options |-> options]>>

\* response.split(/Question \d+:/i).slice(1), then the forEach over the blocks
RECURSIVE ParseBlocksFrom(_, _)
ParseBlocksFrom(blocks, index) ==
    IF index >= Len(blocks) THEN <<>>
    ELSE ParseTextBlock(blocks[index + 1], index) \o ParseBlocksFrom(blocks, index + 1)

parseTextFormatQuestions(raw) ==
    IF raw.kind = "text" THEN ParseBlocksFrom(raw.blocks, 0) ELSE <<>>

\* parseQuestionsFlexible: the text path runs only in the catch clause around
\* deserializeQuestions.
\* Mutant: no try/catch around the parse, in neither function.
UncaughtOutcome(raw) ==
    LET p == JSONParse(DropTrailingCommas(EnsureArray(StripFence(raw))))
    IN  [threw |-> p.threw, value |-> p.value]

\* parseQuestionsFlexible with the way it ends: what deserializeQuestions
\* returned, or in the catch clause what parseTextFormatQuestions returned
\* (which has a try/catch of its own around every block).
FlexibleOutcome(raw) ==
    LET r == DeserializeOutcome(raw)
    IN  IF r.threw THEN [threw |-> FALSE, value |-> parseTextFormatQuestions(raw)]
        ELSE r

parseQuestionsFlexible(raw) == FlexibleOutcome(raw).value
(***************************************************************************)
(* The responses the parser is run on.                                     *)
(***************************************************************************)
JsonResponses ==
    {JsonResponse(items, f, b, t) :
        items \in SeqsUpTo(QuestionShapes, MaxItems), f \in BOOLEAN,
        b \in BOOLEAN, t \in BOOLEAN}

OptionLines(letters) ==
    [k \in DOMAIN letters |-> Line("option", "", letters[k], OptionTexts[k])]

\* Blocks of every shape: with or without question text, numbering, section,
\* three to MaxOptions option lines (in or out of order, with a repeated
\* letter), any or no "Correct Answer:" letter, with or without explanation.
TextBlocks ==
    LET QuestionLines ==
            {<<>>, <<Line("plain", "", "", "What is X?")>>,
             <<Line("plain", "1. ", "", "What is X?")>>, <<Line("plain", "2.", "", "")>>}
        SectionLines == {<<>>, <<Line("Section:", "", "", "Intro")>>}
        OptionLetterings ==
            {SubSeq(Letters, 1, n) : n \in 3..MaxOptions} \cup
            {<<"A", "B", "C", "D", "A">>, <<"B", "A", "D", "C">>}
        CorrectLines ==
            {<<>>} \cup
            {<<Line("Correct Answer:", "", Letters[k], "")>> : k \in 1..MaxOptions}
        ExplanationLines == {<<>>, <<Line("Explanation:", "", "", "because bar")>>}
    IN  {q \o s \o OptionLines(o) \o c \o e :
            q \in QuestionLines, s \in SectionLines, o \in OptionLetterings,
            c \in CorrectLines, e \in ExplanationLines}

\* A block in the format the prompt asks for: question text, four option
\* lines A) .. D), a "Correct Answer:" letter among them.
FormatBlocks ==
    {q \o s \o OptionLines(SubSeq(Letters, 1, 4)) \o c \o e :
        q \in {<<Line("plain", "", "", "What is X?")>>,
               <<Line("plain", "1. ", "", "What is X?")>>},
        s \in {<<>>, <<Line("Section:", "", "", "Intro")>>},
        c \in {<<Line("Correct Answer:", "", Letters[k], "")>> : k \in 1..4},
        e \in {<<>>, <<Line("Explanation:", "", "", "because bar")>>}}

TextResponses ==
    {TextResponse(<<b>>, f) : b \in TextBlocks, f \in BOOLEAN} \cup
    {TextResponse(bs, FALSE) : bs \in SeqsUpTo(FormatBlocks, MaxItems)}

\* Valid questions whose question text and second option text hold commas,
\* brackets, braces or code-fence markers.
SpecialQuestions ==
    {[MkQuestion(1, 4, {1}) EXCEPT !.text = Concat(t)] : t \in SpelledTexts} \cup
    {[MkQuestion(1, 4, {2}) EXCEPT !.options[2].text = Concat(<<"{", "x", ",", "}">>)]}

\* What JSON.stringify makes of lists of distinct valid questions.
StringifiedLists ==
    {JSONStringify(qs) : qs \in {l \in SeqsUpTo(SpecialQuestions, MaxItems) :
                                   \A j, k \in DOMAIN l : j # k => l[j] # l[k]}}

ParserInputs == JsonResponses \cup TextResponses \cup StringifiedLists \cup {OtherResponse}

(***************************************************************************)
(* The values of the variables a specification does not use.               *)
(***************************************************************************)
\* No document (an empty query snapshot).
NoDoc ==
    [id |-> "", userId |-> "", courseId |-> "", questionsJson |-> OtherResponse,
     generatedAt |-> 0, attemptedAt |-> 0, score |-> 0, isCompleted |-> FALSE]

Calls == 1..MaxCalls

\* A submitQuiz call that has not been made.
IdleCall ==
    [pc |-> "idle", quizResultId |-> "", userId |-> "", submission |-> <<>>,
     docIndex |-> 0, quizResult |-> NoDoc, questions |-> <<>>,
     previousHighScore |-> 0, attemptedAt |-> 0, next |-> 0, correctCount |-> 0,
     status |-> "", thrown |-> "", error |-> "", score |-> 0]

StoreEmpty == quizResults = <<>> /\ quizAnswers = <<>> /\ now = 0

SubmitIdle == calls = [c \in Calls |-> IdleCall]

ParserIdle ==
    /\ response = OtherResponse
    /\ parsed = <<>>
    /\ ppc = "idle"

GenIdle ==
    /\ numQuestions = 0
    /\ sectionCount = 0
    /\ contentLength = 0
    /\ i = 0
    /\ allQuestions = <<>>
    /\ subCalls = <<>>
    /\ questionsJson = OtherResponse
    /\ questionsData = <<>>
    /\ quiz = <<>>
    /\ startError = ""
    /\ gpc = "idle"

ValidationIdle ==
    /\ course = <<>>
    /\ validation = [isValid |-> FALSE, issues |-> <<>>]
    /\ thrownMessage = <<>>
    /\ callerMessage = <<>>
    /\ vpc = "idle"

TemplateIds == 1..MaxTemplates

\* A caller of PromptTemplateService that has made no call.
IdleTemplateCall ==
    [op |-> "", pc |-> "idle", templateId |-> 0, isDefault |-> FALSE,
     snapshot |-> {}, toUnset |-> {}, currentCount |-> 0, status |-> ""]

TemplatesIdle ==
    /\ templates = [t \in TemplateIds |-> [exists |-> FALSE, isDefault |-> FALSE, usageCount |-> 0]]
    /\ tcalls = [c \in 1..2 |-> IdleTemplateCall]
    /\ tcount = 0

\* The body of a request; max_tokens = 0 is an absent (or zero) field, and
\* messages is the length of the messages array.
NoBody == [model |-> "", stream |-> FALSE, max_tokens |-> 0, messages |-> 0]

ProxyIdle ==
    /\ hpc = "idle" /\ elapsed = 0 /\ received = 0 /\ statusCode = 0
    /\ requestBody = NoBody /\ upstream = <<>> /\ buffer = <<>> /\ fullContent = <<>>

\* The quiz of the page when there is none (null).
NoQuiz == [id |-> 0, title |-> "", questions |-> <<>>]

AppIdle ==
    /\ courseContent = <<>>
    /\ sectionsWithSubtitles = <<>>
    /\ contentForPrompt = [length |-> 0, rendered |-> <<>>]
    /\ boardArgs = [courseId |-> "", topCount |-> 0]
    /\ leaderboard = <<>>
    /\ bpc = "idle"
    /\ ui = [quiz |-> NoQuiz, translatedQuiz |-> NoQuiz, enableTranslation |-> FALSE,
             isTranslating |-> FALSE, generating |-> FALSE, answers |-> <<>>,
             quizCompleted |-> FALSE, generated |-> 0]
    /\ job = [source |-> NoQuiz, titleDone |-> FALSE, title |-> "", questions |-> <<>>]

ServicesIdle == ValidationIdle /\ TemplatesIdle /\ ProxyIdle /\ AppIdle

(***************************************************************************)
(* Parser specification: parseQuestionsFlexible applied to one response.   *)
(***************************************************************************)
ReceiveResponse ==
    /\ ppc = "idle"
    /\ \E r \in ParserInputs : response' = r
    /\ ppc' = "received"
    /\ UNCHANGED <<parsed, genVars, storeVars, calls, serviceVars>>

ParseResponse ==
    /\ ppc = "received"
    /\ parsed' = parseQuestionsFlexible(response)
    /\ ppc' = IF FlexibleOutcome(response).threw THEN "threw" ELSE "parsed"
    /\ UNCHANGED <<response, genVars, storeVars, calls, serviceVars>>

ParserInit == ParserIdle /\ GenIdle /\ StoreEmpty /\ SubmitIdle /\ ServicesIdle

ParserNext == ReceiveResponse \/ ParseResponse

ParserSpec == ParserInit /\ [][ParserNext]_vars
(***************************************************************************)
(* Claims about the parser.                                                *)
(***************************************************************************)

\* C1: every question parseQuestionsFlexible returns has exactly 4 options and
\* exactly one option with isCorrect = true (a question violating either
\* condition is dropped).
C1_ParsedQuestionsWellFormed ==
    ppc = "parsed" => \A k \in DOMAIN parsed : WellFormed(parsed[k])

\* The "Correct Answer:" letter of a block in the prompt's text format, as a
\* zero-based index, and the block's "Explanation:" text.
BlockCorrectIndex(block) == LetterIndex(FindLine(block, "Correct Answer:")[1].letter)

BlockExplanation(block) ==
    IF FindLine(block, "Explanation:") = <<>> THEN ""
    ELSE FindLine(block, "Explanation:")[1].body

\* C2: for a free-text response made of "Question N:" blocks, each with four
\* option lines A) .. D) and a "Correct Answer: <letter>" line,
\* parseQuestionsFlexible returns one question per block, with exactly the
\* option at the letter's zero-based index marked isCorrect and carrying the
\* "Explanation:" text.
C2_TextFallbackParses ==
    (/\ ppc = "parsed"
     /\ response.kind = "text"
     /\ ~response.fenced
     /\ response.blocks # <<>>
     /\ Range(response.blocks) \subseteq FormatBlocks)
    => /\ Len(parsed) = Len(response.blocks)
       /\ \A k \in DOMAIN parsed :
            /\ Len(parsed[k].options) = 4
            /\ \A j \in DOMAIN parsed[k].options :
                 /\ parsed[k].options[j].isCorrect
                      <=> (j = BlockCorrectIndex(response.blocks[k]) + 1)
                 /\ parsed[k].options[j].isCorrect
                      => parsed[k].options[j].explanation
                           = BlockExplanation(response.blocks[k])
(***************************************************************************)
(* Quiz generation: startQuiz and generateQuizInChunks.                    *)
(***************************************************************************)
ChunkThreshold == 2000
MaxChunkSections == 3
MinFormattedLength == 100
MaxTotalLength == 5000

\* Math.ceil(a / b) for a >= 0, b >= 1
CeilDiv(a, b) == (a + b - 1) \div b

\* Math.ceil(numQuestions / Math.min(sectionsWithSubtitles.length, 3))
QuestionsPerSection(n, sections) == CeilDiv(n, Min(sections, MaxChunkSections))

\* Mutant: no cap on the sections processed (slice(0, 3) dropped).
SectionsToProcessAll(sections) == sections

\* sectionsWithSubtitles.slice(0, 3).length
SectionsToProcess(sections) == Min(sections, MaxChunkSections)

\* Mutant: every section is asked for questionsPerSection questions, whatever
\* has been collected.
QuestionsNeededUncapped(n, sections, collected) == QuestionsPerSection(n, sections)

\* Math.min(questionsPerSection, numQuestions - allQuestions.length)
QuestionsNeeded(n, sections, collected) ==
    Min(QuestionsPerSection(n, sections), n - collected)

\* Mutant: the ids of the response are kept.
RenumberNone(sectionQuestions, collected) == sectionQuestions

\* sectionQuestions.forEach((q, index) => q.id = allQuestions.length + index + 1)
Renumber(sectionQuestions, collected) ==
    [k \in DOMAIN sectionQuestions |->
        [sectionQuestions[k] EXCEPT !.id = collected + (k - 1) + 1]]

\* Mutant: the error of a sub-call ends the whole operation.
SectionCatchRethrow(threw) == IF threw THEN "failed" ELSE "chunks"

\* catch (error) { console.error(...) } inside the loop: whether the sub-call
\* threw or not, the loop goes on.
SectionCatch(threw) == "chunks"

\* The quiz object startQuiz returns (its questions).
BuildQuiz(data) ==
    [k \in DOMAIN data |->
        LET correct == {j \in DOMAIN data[k].options : data[k].options[j].isCorrect}
            first == IF correct = {} THEN 0
                     ELSE CHOOSE j \in correct : \A j2 \in correct : j <= j2
        IN  [id |-> "q_" \o ToString(data[k].id),
             question |-> data[k].text,
             options |-> [j \in DOMAIN data[k].options |-> data[k].options[j].text],
             correctAnswer |-> first - 1,
             explanation |-> IF first = 0 THEN ""
                             ELSE data[k].options[first].explanation]]

\* The document startQuiz adds to quizResults.
NewQuizResult(id, userId, raw) ==
    [id |-> id, userId |-> userId, courseId |-> "c1", questionsJson |-> raw,
     generatedAt |-> 0, attemptedAt |-> 0, score |-> 0, isCompleted |-> FALSE]

\* catch (error) { throw new Error('Failed to generate AI quiz') }
StartQuizCatch(error) == "Failed to generate AI quiz"

\* What openAIService.generateText can do: throw, or return a text: a JSON
\* array of 0..MaxReturned questions, a malformed or fenced JSON text, free
\* text, or anything else.
CallOutcomes ==
    {[threw |-> TRUE, text |-> OtherResponse]} \cup
    {[threw |-> FALSE, text |-> t] : t \in
        {JSONStringify([k \in 1..n |-> MkQuestion(7, 4, {2})]) : n \in 0..MaxReturned}
        \cup {JsonResponse(<<MkQuestion(7, 3, {})>>, TRUE, FALSE, TRUE),
              TextResponse(<<CHOOSE b \in FormatBlocks : TRUE>>, FALSE),
              OtherResponse}}

StartQuiz ==
    /\ gpc = "idle"
    /\ \E n \in 1..MaxNumQuestions, sc \in 1..MaxSections,
          len \in {MinFormattedLength - 1, MinFormattedLength, ChunkThreshold,
                   ChunkThreshold + 1, MaxTotalLength} :
         /\ numQuestions' = n
         /\ sectionCount' = sc
         /\ contentLength' = len
         /\ IF len < MinFormattedLength
            THEN gpc' = "failed" /\ startError' = StartQuizCatch("Content formatting failed")
            ELSE /\ gpc' = IF len > ChunkThreshold THEN "chunks" ELSE "single"
                 /\ startError' = ""
    /\ UNCHANGED <<i, allQuestions, subCalls, questionsJson, questionsData, quiz,
                   quizResults, quizAnswers, now, calls, parserVars, serviceVars>>

\* One iteration of the for loop of generateQuizInChunks: the sub-call for
\* section i, its parse, the renumbering and the push.
SectionSubCall ==
    /\ gpc = "chunks"
    /\ i < SectionsToProcess(sectionCount)
    /\ Len(allQuestions) < numQuestions
    /\ LET questionsNeeded ==
               QuestionsNeeded(numQuestions, sectionCount, Len(allQuestions))
       IN  /\ questionsNeeded > 0
           /\ \E o \in CallOutcomes :
                LET sectionQuestions ==
                        IF o.threw THEN <<>>
                        ELSE Renumber(parseQuestionsFlexible(o.text), Len(allQuestions))
                    pushed == Slice0(sectionQuestions, questionsNeeded)
                IN  /\ allQuestions' = allQuestions \o pushed
                    /\ subCalls' = Append(subCalls,
                          [section |-> i + 1, requested |-> questionsNeeded,
                           collectedBefore |-> Len(allQuestions),
                           appended |-> Len(pushed), threw |-> o.threw])
                    /\ gpc' = SectionCatch(o.threw)
    /\ i' = i + 1
    /\ UNCHANGED <<numQuestions, sectionCount, contentLength, questionsJson,
                   questionsData, quiz, startError, quizResults, quizAnswers,
                   now, calls, parserVars, serviceVars>>

\* The loop ends; allQuestions.slice(0, numQuestions) is stringified.
FinishChunks ==
    /\ gpc = "chunks"
    /\ ~(/\ i < SectionsToProcess(sectionCount)
         /\ Len(allQuestions) < numQuestions
         /\ QuestionsNeeded(numQuestions, sectionCount, Len(allQuestions)) > 0)
    /\ questionsJson' = JSONStringify(Slice0(allQuestions, numQuestions))
    /\ gpc' = "parse"
    /\ UNCHANGED <<numQuestions, sectionCount, contentLength, i, allQuestions,
                   subCalls, questionsData, quiz, startError, quizResults,
                   quizAnswers, now, calls, parserVars, serviceVars>>

\* The single generateText call of startQuiz.
SingleCall ==
    /\ gpc = "single"
    /\ \E o \in CallOutcomes :
         IF o.threw
         THEN /\ gpc' = "failed"
              /\ startError' = StartQuizCatch("generateText failed")
              /\ UNCHANGED questionsJson
         ELSE /\ gpc' = "parse"
              /\ questionsJson' = o.text
              /\ UNCHANGED startError
    /\ UNCHANGED <<numQuestions, sectionCount, contentLength, i, allQuestions,
                   subCalls, questionsData, quiz, quizResults, quizAnswers, now,
                   calls, parserVars, serviceVars>>

\* Steps 3-5 of startQuiz: parse, build the quiz, add the quizResults
\* document (which the store may refuse), return.
FinishStartQuiz ==
    /\ gpc = "parse"
    /\ questionsData' = parseQuestionsFlexible(questionsJson)
    /\ \E stored \in BOOLEAN :
         IF stored
         THEN /\ quiz' = BuildQuiz(questionsData')
              /\ quizResults' = Append(quizResults,
                                       NewQuizResult("r1", "u1", questionsJson))
              /\ gpc' = "returned"
              /\ UNCHANGED startError
         ELSE /\ gpc' = "failed"
              /\ startError' = StartQuizCatch("addDoc failed")
              /\ UNCHANGED <<quiz, quizResults>>
    /\ UNCHANGED <<numQuestions, sectionCount, contentLength, i, allQuestions,
                   subCalls, questionsJson, quizAnswers, now, calls, parserVars, serviceVars>>

GenInit == ParserIdle /\ GenIdle /\ StoreEmpty /\ SubmitIdle /\ ServicesIdle

GenNext == StartQuiz \/ SectionSubCall \/ FinishChunks \/ SingleCall \/ FinishStartQuiz

GenSpec == GenInit /\ [][GenNext]_vars
(***************************************************************************)
(* Claims about generation.                                                *)
(***************************************************************************)
RECURSIVE SumSeq(_)
SumSeq(s) == IF s = <<>> THEN 0 ELSE Head(s) + SumSeq(Tail(s))

RequestedTotal == SumSeq([k \in DOMAIN subCalls |-> subCalls[k].requested])

Shortfall == SumSeq([k \in DOMAIN subCalls |-> subCalls[k].requested - subCalls[k].appended])

ChunkingDone == gpc \in {"parse", "returned", "failed"} /\ contentLength > ChunkThreshold

C4_SubCallsEqualMinSections ==
    ChunkingDone => Len(subCalls) = Min(sectionCount, MaxChunkSections)

\* C4 (amended): the number of sub-calls is at most min(number of valid
\* sections, 3), and it is smaller only when numQuestions questions had been
\* collected before the remaining sections were reached.
C4_SubCallsAtMostMinSections ==
    ChunkingDone =>
        /\ Len(subCalls) <= Min(sectionCount, MaxChunkSections)
        /\ Len(subCalls) < Min(sectionCount, MaxChunkSections)
             => Len(allQuestions) >= numQuestions

C4_Witness ==
    /\ ChunkingDone
    /\ numQuestions > 0
    /\ sectionCount > MaxChunkSections
    /\ Len(subCalls) < MaxChunkSections

\* C5: a generation whose final parsed question count is zero is a hard
\* failure: startQuiz raises an error, returns no quiz and adds no quizResults
\* record, on the single-call path and on the chunked path.
C5_EmptyQuizIsFailure ==
    (gpc \in {"returned", "failed"} /\ parseQuestionsFlexible(questionsJson) = <<>>)
    => (gpc = "failed" /\ startError # "" /\ quiz = <<>> /\ quizResults = <<>>)

\* The list that chunked generation produced (what it stringified).
ChunkedQuestions == questionsJson.items

\* C14: the question list produced by chunked generation has at most
\* numQuestions questions, and its ids are exactly 1, 2, ..., k in order,
\* whatever ids the responses carried and however many questions each section
\* returned.
C14_ChunkedIdsSequential ==
    /\ \A k \in DOMAIN allQuestions : allQuestions[k].id = k
    /\ ChunkingDone =>
         /\ Len(ChunkedQuestions) <= numQuestions
         /\ \A k \in DOMAIN ChunkedQuestions : ChunkedQuestions[k].id = k

C14_Witness ==
    /\ ChunkingDone
    /\ Len(ChunkedQuestions) = MaxNumQuestions
    /\ Len(subCalls) >= 2
    /\ \A k \in DOMAIN subCalls : subCalls[k].appended > 0

\* The sub-call for section k brought nothing: it threw, or its parse
\* yielded zero questions.
SectionFailed(k) == subCalls[k].threw \/ subCalls[k].appended = 0

\* C15: in chunked generation a section whose sub-call raises an error or
\* yields zero questions does not abort the operation: the loop goes on to
\* the next selected section, and the questions collected from earlier
\* sections are kept in the final result.
C15_FailedSectionSkipped ==
    /\ [](\A k \in DOMAIN subCalls : SectionFailed(k) =>
            /\ Len(allQuestions) >= subCalls[k].collectedBefore
            /\ ChunkingDone =>
                 /\ k < SectionsToProcess(sectionCount) => Len(subCalls) > k
                 /\ Len(ChunkedQuestions) >= subCalls[k].collectedBefore
                 /\ SubSeq(ChunkedQuestions, 1, subCalls[k].collectedBefore)
                      = SubSeq(allQuestions, 1, subCalls[k].collectedBefore))
    /\ [][(Len(subCalls') = Len(subCalls) + 1 /\ SectionFailed(Len(subCalls))')
           => /\ gpc' = "chunks"
              /\ startError' = startError
              /\ allQuestions' = allQuestions]_vars

C15_Witness ==
    /\ ChunkingDone
    /\ Len(subCalls) = MaxChunkSections
    /\ subCalls[1].appended > 0
    /\ subCalls[2].threw
    /\ subCalls[3].appended > 0

(***************************************************************************)
(* Quiz submission: submitQuiz.                                            *)
(***************************************************************************)
\* The stored question of id k: four options, option k the correct one.
QuizQuestion(k) == MkQuestion(k, 4, {k})

\* What startQuiz may have stored as questionsJson: a JSON array of
\* 0..MaxQuizQuestions questions, a fenced single object with three options
\* and two of them correct, a question with no correct option, or text that
\* is not JSON (startQuiz stores the raw response).
StoredJsons ==
    {JSONStringify([k \in 1..n |-> QuizQuestion(k)]) : n \in 0..MaxQuizQuestions} \cup
    {JsonResponse(<<MkQuestion(1, 3, {1, 2})>>, TRUE, FALSE, FALSE),
     JSONStringify(<<MkQuestion(1, 4, {})>>), OtherResponse}

\* `q_${q.id}`
QuestionId(id) == "q_" \o ToString(id)

\* The submissions: up to MaxAnswers answers, each naming a stored question or
\* an unknown one, with an option index in or out of range.
Submissions ==
    SeqsUpTo([questionId : {QuestionId(k) : k \in 1..MaxQuizQuestions} \cup {"q_9"},
              selectedOptionId : {-1, 0, 1}],
             MaxAnswers)

\* The submissions used where calls follow one another: no answer, or one
\* answer to the first question (right or wrong) or to an unknown question.
FewSubmissions ==
    SeqsUpTo({[questionId |-> "q_1", selectedOptionId |-> 0],
              [questionId |-> "q_1", selectedOptionId |-> 1],
              [questionId |-> "q_9", selectedOptionId |-> 0]},
             1)

\* The first document of the query where("id", "==", quizResultId): its index
\* in the collection, 0 when the snapshot is empty.
FindResult(quizResultId) ==
    LET hits == {k \in DOMAIN quizResults : quizResults[k].id = quizResultId}
    IN  IF hits = {} THEN 0 ELSE CHOOSE k \in hits : \A j \in hits : k <= j

\* Mutant: the isCompleted check is missing.
RejectReasonNoCompletedCheck(found, quizResult, userId) ==
    IF ~found THEN "Quiz result not found"
    ELSE IF quizResult.userId # userId THEN "Unauthorized access to quiz result"
    ELSE ""

\* Mutant: the owner check is missing.
RejectReasonNoOwnerCheck(found, quizResult, userId) ==
    IF ~found THEN "Quiz result not found"
    ELSE IF quizResult.isCompleted THEN "Quiz already submitted"
    ELSE ""

\* The three checks after the quiz result is loaded: the error thrown, "" when
\* the submission goes on.
RejectReason(found, quizResult, userId) ==
    IF ~found THEN "Quiz result not found"
    ELSE IF quizResult.userId # userId THEN "Unauthorized access to quiz result"
    ELSE IF quizResult.isCompleted THEN "Quiz already submitted"
    ELSE ""

\* catch (error) { throw new Error('Failed to submit quiz') }
SubmitCatch(error) == "Failed to submit quiz"

\* getUserCourseScores and Math.max(...previousScores), 0 when there is none
PreviousHighScore(userId, courseId) ==
    LET scores == {quizResults[k].score : k \in
                     {j \in DOMAIN quizResults :
                        /\ quizResults[j].userId = userId
                        /\ quizResults[j].courseId = courseId
                        /\ quizResults[j].isCompleted}}
    IN  IF scores = {} THEN 0 ELSE CHOOSE m \in scores : \A x \in scores : x <= m

\* questions.find(q => `q_${q.id}` === questionId): <<q>> or <<>>
FindQuestion(questions, questionId) ==
    LET hits == {k \in DOMAIN questions : QuestionId(questions[k].id) = questionId}
    IN  IF hits = {} THEN <<>>
        ELSE <<questions[CHOOSE k \in hits : \A j \in hits : k <= j]>>

\* Math.round(x) for x = (correctCount / n) * 100, n > 0: floor(x + 1/2)
RoundPercent(correctCount, n) == (200 * correctCount + n) \div (2 * n)

\* Mutant: the percentage is taken over the answers submitted.
ScoreOverAnswers(correctCount, questions, submission) ==
    IF Len(submission) > 0 THEN RoundPercent(correctCount, Len(submission)) ELSE 0

\* questions.length > 0 ? Math.round((correctCount / questions.length) * 100) : 0
Score(correctCount, questions, submission) ==
    IF Len(questions) > 0 THEN RoundPercent(correctCount, Len(questions)) ELSE 0

\* Steps 1 to 2.1 and the start of step 3: the call is made (once the
\* caller's previous call has ended), the quiz result is loaded and checked,
\* its questions are deserialized, the previous high score is read,
\* attemptedAt is taken.  A throw is caught and rethrown by SubmitCatch.
SubmitLoad(c, submissions) ==
    /\ calls[c].pc \in {"idle", "done"}
    /\ now < MaxAttempts
    /\ \E quizResultId \in {"r1", "r0"}, userId \in {"u1", "u2"},
          submission \in submissions, readOk \in BOOLEAN :
         LET k == FindResult(quizResultId)
             quizResult == IF k = 0 THEN NoDoc ELSE quizResults[k]
             thrown == IF readOk THEN RejectReason(k # 0, quizResult, userId)
                       ELSE "getDocs failed"
             called == [calls EXCEPT ![c] =
                          [IdleCall EXCEPT !.quizResultId = quizResultId,
                                           !.userId = userId,
                                           !.submission = submission]]
         IN  IF thrown # ""
             THEN /\ calls' = [called EXCEPT ![c].pc = "done", ![c].status = "error",
                                            ![c].thrown = thrown,
                                            ![c].error = SubmitCatch(thrown),
                                            ![c].docIndex = IF readOk THEN k ELSE 0,
                                            ![c].quizResult =
                                                IF readOk THEN quizResult ELSE NoDoc]
                  /\ UNCHANGED now
             ELSE /\ calls' = [called EXCEPT
                                 ![c].pc = "answers", ![c].docIndex = k,
                                 ![c].quizResult = quizResult,
                                 ![c].questions =
                                     deserializeQuestions(quizResult.questionsJson),
                                 ![c].previousHighScore =
                                     PreviousHighScore(userId, quizResult.courseId),
                                 ![c].attemptedAt = now + 1, ![c].next = 1]
                  /\ now' = now + 1
    /\ UNCHANGED <<quizResults, quizAnswers, parserVars, genVars, serviceVars>>

\* One iteration of the loop over submission.questions: the answer is skipped,
\* or counted and saved with addDoc, which the store may refuse.
SubmitAnswer(c) ==
    /\ calls[c].pc = "answers"
    /\ calls[c].next <= Len(calls[c].submission)
    /\ LET answer == calls[c].submission[calls[c].next]
           questionData == FindQuestion(calls[c].questions, answer.questionId)
           options == IF questionData = <<>> THEN <<>> ELSE questionData[1].options
           inRange == answer.selectedOptionId + 1 \in DOMAIN options
           hasCorrect == \E j \in DOMAIN options : options[j].isCorrect
       IN  IF questionData = <<>> \/ ~inRange \/ ~hasCorrect
           THEN /\ calls' = [calls EXCEPT ![c].next = @ + 1]
                /\ UNCHANGED quizAnswers
           ELSE LET isCorrect == options[answer.selectedOptionId + 1].isCorrect
                    counted == [calls EXCEPT
                                  ![c].correctCount = IF isCorrect THEN @ + 1 ELSE @]
                IN  \E saved \in BOOLEAN :
                      IF saved
                      THEN /\ quizAnswers' = Append(quizAnswers,
                                [quizResultId |-> calls[c].quizResultId,
                                 userId |-> calls[c].userId,
                                 questionId |-> answer.questionId,
                                 selectedOptionId |-> answer.selectedOptionId,
                                 isCorrect |-> isCorrect,
                                 submittedAt |-> calls[c].attemptedAt])
                           /\ calls' = [counted EXCEPT ![c].next = @ + 1]
                      ELSE /\ calls' = [counted EXCEPT
                                          ![c].pc = "done", ![c].status = "error",
                                          ![c].thrown = "addDoc failed",
                                          ![c].error = SubmitCatch("addDoc failed")]
                           /\ UNCHANGED quizAnswers
    /\ UNCHANGED <<quizResults, now, parserVars, genVars, serviceVars>>

\* Steps 4 and 5: the score, the update of the quiz result (which the store
\* may refuse), the return.
SubmitFinish(c) ==
    /\ calls[c].pc = "answers"
    /\ calls[c].next > Len(calls[c].submission)
    /\ LET score == Score(calls[c].correctCount, calls[c].questions, calls[c].submission)
       IN  \E updated \in BOOLEAN :
             IF updated
             THEN /\ quizResults' = [quizResults EXCEPT
                        ![calls[c].docIndex].attemptedAt = calls[c].attemptedAt,
                        ![calls[c].docIndex].score = score,
                        ![calls[c].docIndex].isCompleted = TRUE]
                  /\ calls' = [calls EXCEPT ![c].pc = "done", ![c].status = "ok",
                                            ![c].score = score]
             ELSE /\ calls' = [calls EXCEPT
                                 ![c].pc = "done", ![c].status = "error",
                                 ![c].thrown = "updateDoc failed",
                                 ![c].error = SubmitCatch("updateDoc failed")]
                  /\ UNCHANGED quizResults
    /\ UNCHANGED <<quizAnswers, now, parserVars, genVars, serviceVars>>

\* A quiz result that startQuiz stored for user u1, not yet attempted.
SubmitInit ==
    /\ ParserIdle /\ GenIdle /\ SubmitIdle /\ ServicesIdle
    /\ quizAnswers = <<>>
    /\ now = 0
    /\ \E raw \in StoredJsons : quizResults = <<NewQuizResult("r1", "u1", raw)>>

\* One caller, which awaits each call before it makes the next.
Resubmit == SubmitLoad(1, FewSubmissions)

SubmitNext == Resubmit \/ SubmitAnswer(1) \/ SubmitFinish(1)

SubmitSpec == SubmitInit /\ [][SubmitNext]_vars

\* One call, with any submission.
SubmitOnce == calls[1].pc = "idle" /\ SubmitLoad(1, Submissions)

SubmitOnceNext == SubmitOnce \/ SubmitAnswer(1) \/ SubmitFinish(1)

SubmitOnceSpec == SubmitInit /\ [][SubmitOnceNext]_vars

(***************************************************************************)
(* Claims about submission.                                                *)
(***************************************************************************)
\* The step is the start of a new call of caller 1 for quizResultId.
CallStarts(quizResultId) ==
    /\ calls[1].pc \in {"idle", "done"}
    /\ calls'[1] # calls[1]
    /\ calls'[1].quizResultId = quizResultId

CountedAnswers(questions, submission) ==
    {k \in DOMAIN submission :
        LET q == FindQuestion(questions, submission[k].questionId)
        IN  /\ q # <<>>
            /\ submission[k].selectedOptionId + 1 \in DOMAIN q[1].options
            /\ \E j \in DOMAIN q[1].options : q[1].options[j].isCorrect}

\* Those of them whose selected option is a correct one.
CorrectAnswers(questions, submission) ==
    {k \in CountedAnswers(questions, submission) :
        FindQuestion(questions, submission[k].questionId)[1]
            .options[submission[k].selectedOptionId + 1].isCorrect}

\* The quizAnswers documents that the current call of caller 1 wrote.
AnswersOfCall == {k \in DOMAIN quizAnswers : quizAnswers[k].submittedAt = calls[1].attemptedAt}

\* C7: a submission is atomic with respect to the store: if submitQuiz fails
\* at any step, no quizAnswers record of that call remains persisted and the
\* quiz result is unchanged; if it succeeds, all answer records and the
\* completed result are persisted.
C7_SubmitAtomic ==
    calls[1].pc = "done" =>
        IF calls[1].status = "error"
        THEN /\ calls[1].attemptedAt # 0 => AnswersOfCall = {}
             /\ calls[1].docIndex # 0 => quizResults[calls[1].docIndex] = calls[1].quizResult
        ELSE /\ Cardinality(AnswersOfCall)
                  = Cardinality(CountedAnswers(calls[1].questions, calls[1].submission))
             /\ quizResults[calls[1].docIndex].isCompleted
             /\ quizResults[calls[1].docIndex].score = calls[1].score

\* C8: the score returned and stored by submitQuiz is an integer in 0..100,
\* also for submissions that list the same questionId more than once.
C8_ScoreIsPercentage ==
    /\ calls[1].score \in 0..100
    /\ \A k \in DOMAIN quizResults : quizResults[k].score \in 0..100

\* C9: score = round(100 * correctCount / totalQuestionCount), where
\* totalQuestionCount is the number of questions of the stored quiz and
\* correctCount the number of submitted answers whose selected option is
\* correct; answers with an unknown questionId or an out-of-range option are
\* skipped and count as incorrect; a quiz with 0 questions yields 0.
C9_ScoreFormula ==
    (calls[1].pc = "done" /\ calls[1].status = "ok") =>
        LET stored == quizResults[calls[1].docIndex]
            questions == deserializeQuestions(stored.questionsJson)
            n == Len(questions)
            correctCount == Cardinality(CorrectAnswers(questions, calls[1].submission))
        IN  /\ stored.score = calls[1].score
            /\ n = 0 => calls[1].score = 0
            /\ n > 0 => /\ 2 * calls[1].score * n - n <= 200 * correctCount
                        /\ 200 * correctCount < 2 * calls[1].score * n + n

C9_Witness ==
    /\ calls[1].pc = "done"
    /\ calls[1].status = "ok"
    /\ calls[1].score = 50
    /\ \E k \in DOMAIN calls[1].submission : calls[1].submission[k].questionId = "q_9"

\* C10: re-submission of a completed quiz is surfaced to the caller as an
\* error distinguishable from the "quiz result not found" and "unauthorized"
\* errors: a call rejected for one of these conditions and the next call
\* rejected for another do not get the same error value.
C10_DistinctErrors ==
    [][(/\ calls[1].pc = "done" /\ calls[1].status = "error"
        /\ calls'[1].pc = "done" /\ calls'[1].status = "error"
        /\ calls[1].thrown # calls'[1].thrown
        /\ {calls[1].thrown, calls'[1].thrown} \subseteq
              {"Quiz result not found", "Unauthorized access to quiz result",
               "Quiz already submitted"}
        /\ "Quiz already submitted" \in {calls[1].thrown, calls'[1].thrown})
       => calls[1].error # calls'[1].error]_vars

\* The quiz result that a call names does not exist, belongs to another user
\* or is already completed.
MustReject(quizResultId, userId) ==
    \/ \A k \in DOMAIN quizResults : quizResults[k].id # quizResultId
    \/ \E k \in DOMAIN quizResults :
          /\ k = FindResult(quizResultId)
          /\ quizResults[k].userId # userId \/ quizResults[k].isCompleted

\* C11: a submitQuiz call whose quiz result does not exist, belongs to
\* another user or is already completed is rejected and writes nothing: no
\* quizAnswers record is added and no quizResults record changes.
C11_RejectedWritesNothing ==
    [][(\E quizResultId \in {"r1", "r0"}, userId \in {"u1", "u2"} :
          /\ CallStarts(quizResultId)
          /\ calls'[1].userId = userId
          /\ MustReject(quizResultId, userId))
       => /\ calls'[1].pc = "done"
          /\ calls'[1].status = "error"
          /\ quizAnswers' = quizAnswers
          /\ quizResults' = quizResults]_vars

C11_Witness ==
    /\ calls[1].pc = "done"
    /\ calls[1].thrown = "Unauthorized access to quiz result"
    /\ calls[1].userId = "u2"
    /\ ~quizResults[1].isCompleted

(***************************************************************************)
(* Content validation: analyzeCourseContent and validateForQuizGeneration  *)
(* of utils/courseDebugger, and their use at the start of startQuiz.       *)
(***************************************************************************)
MinSectionLength == 50
MinTotalCharacters == 200

\* The trimmed content lengths a section can have (0: no content).
SectionLengths == {0, 10, MinSectionLength - 1, MinSectionLength, 150,
                   MinTotalCharacters - 1, MinTotalCharacters}

Courses == SeqsUpTo(SectionLengths, MaxCourseSections)

\* analyzeCourseContent: the counters that validation reads.
AnalyzeCourseContent(sections) ==
    [totalSections |-> Len(sections),
     validSections |-> Cardinality({k \in DOMAIN sections :
                                      sections[k] >= MinSectionLength}),
     totalCharacters |-> SumSeq(sections)]

\* issues.push(...) when the condition holds
IssueIf(condition, issue) == IF condition THEN <<issue>> ELSE <<>>

validateForQuizGeneration(sections) ==
    LET analysis == AnalyzeCourseContent(sections)
        issues ==
            IssueIf(~(analysis.totalSections > 0), "Course has no content sections")
            \o IssueIf(~(analysis.totalCharacters >= MinTotalCharacters),
                       "Course content too short ("
                       \o ToString(analysis.totalCharacters)
                       \o " chars, need at least 200)")
            \o IssueIf(~(analysis.validSections > 0),
                       "No sections contain valid content")
            \o IssueIf(analysis.validSections < 2 /\ analysis.totalSections > 1,
                       "Most sections are empty or invalid - need at least 2 sections with content")
    IN  [isValid |-> Len(issues) = 0, issues |-> issues]

\* getDoc: the course document is loaded.
LoadCourse ==
    /\ vpc = "idle"
    /\ \E sections \in Courses : course' = sections
    /\ vpc' = "loaded"
    /\ UNCHANGED <<validation, thrownMessage, callerMessage,
                   parserVars, genVars, storeVars, calls, templateVars, proxyVars, appVars>>

\* The validation step of startQuiz: an invalid course throws the itemized
\* message, which the catch clause of startQuiz replaces.
ValidateCourse ==
    /\ vpc = "loaded"
    /\ LET result == validateForQuizGeneration(course)
           errorMessage ==
               <<"Course is not suitable for quiz generation:">> \o result.issues
       IN  /\ validation' = result
           /\ IF ~result.isValid
              THEN /\ thrownMessage' = errorMessage
                   /\ callerMessage' = <<StartQuizCatch(errorMessage)>>
                   /\ vpc' = "failed"
              ELSE /\ UNCHANGED <<thrownMessage, callerMessage>>
                   /\ vpc' = "validated"
    /\ UNCHANGED <<course, parserVars, genVars, storeVars, calls, templateVars, proxyVars, appVars>>

ValidationSpec == ParserInit /\ [][LoadCourse \/ ValidateCourse]_vars

\* C12: when course content is insufficient, the error that reaches the
\* caller of startQuiz carries every itemized validation reason verbatim.
C12_CallerGetsReasons ==
    vpc = "failed" =>
        \A k \in DOMAIN validation.issues :
            \E j \in DOMAIN callerMessage : callerMessage[j] = validation.issues[k]

\* The sections that count as valid.
ValidSections(sections) ==
    FilterSeq(sections, {n \in Range(sections) : n >= MinSectionLength})

\* C13: validation succeeds if and only if at least one section is valid
\* (trimmed length >= 50) and the total trimmed length of the valid sections
\* is >= 200.
C13_ValidIffEnoughValidContent ==
    vpc \in {"failed", "validated"} =>
        (validation.isValid <=>
            /\ Len(ValidSections(course)) >= 1
            /\ SumSeq(ValidSections(course)) >= MinTotalCharacters)

\* C16: serializing a list of n distinct valid questions with JSON.stringify
\* and parsing it back with deserializeQuestions yields the same n questions
\* (text, option texts, option order, correct option), also for texts that
\* contain commas, brackets, braces or code-fence markers.
C16_RoundTrip ==
    (ppc = "parsed" /\ response \in StringifiedLists)
    => /\ parsed = deserializeQuestions(response)
       /\ parsed = response.items

\* C17: parseQuestionsFlexible never raises, for any input; when neither
\* format can be parsed it returns an empty list.
C17_ParserNeverRaises ==
    /\ ppc # "threw"
    /\ (/\ ppc = "parsed"
        /\ JSONParse(DropTrailingCommas(EnsureArray(StripFence(response)))).threw
        /\ parseTextFormatQuestions(response) = <<>>)
       => parsed = <<>>

C17_Witness ==
    /\ ppc = "parsed"
    /\ response = OtherResponse
    /\ parsed = <<>>

(***************************************************************************)
(* Prompt templates: PromptTemplateService.  Every step is one operation   *)
(* on the store; a call takes its steps one after another, and the steps   *)
(* of two callers interleave.                                              *)
(***************************************************************************)
\* The documents of the query where('isDefault', '==', true) of the user.
Defaults == {t \in TemplateIds : templates[t].exists /\ templates[t].isDefault}

\* Mutant: no existing default is unset.
SnapshotNone(docs) == {}

\* snapshot.docs of setUserDefaultTemplate: every document gets an updateDoc.
Snapshot(docs) == docs

\* The call of caller c ends (tc: the calls).
EndCall(tc, c, status) == [tc EXCEPT ![c].pc = "done", ![c].status = status]

\* A call is made by caller c: its record.
NewCall(c, op, templateId, isDefault) ==
    [tcalls EXCEPT ![c] = [IdleTemplateCall EXCEPT !.op = op, !.pc = "query",
                                                  !.templateId = templateId,
                                                  !.isDefault = isDefault]]

MayCall(c) == tcalls[c].pc \in {"idle", "done"} /\ tcount < MaxTemplateCalls

\* saveTemplate up to its setDoc: a duplicate name throws; otherwise the
\* document is created under a new id with the isDefault the caller gave, and
\* with isDefault the call goes on in setUserDefaultTemplate.
SaveTemplate(c) ==
    /\ MayCall(c)
    /\ \E t \in TemplateIds, isDefault \in BOOLEAN, duplicateName \in BOOLEAN :
         /\ ~templates[t].exists
         /\ duplicateName => \E u \in TemplateIds : templates[u].exists
         /\ IF duplicateName
            THEN /\ tcalls' = EndCall(NewCall(c, "saveTemplate", t, isDefault), c, "error")
                 /\ UNCHANGED templates
            ELSE /\ templates' = [templates EXCEPT
                                    ![t] = [exists |-> TRUE, isDefault |-> isDefault, usageCount |-> 0]]
                 /\ tcalls' = IF isDefault
                              THEN NewCall(c, "saveTemplate", t, isDefault)
                              ELSE EndCall(NewCall(c, "saveTemplate", t, isDefault), c, "ok")
    /\ tcount' = tcount + 1
    /\ UNCHANGED <<parserVars, genVars, storeVars, calls, validationVars, proxyVars, appVars>>

\* updateTemplate up to its updateDoc, which throws when the document does
\* not exist; updates.isDefault is true, false or absent ("absent").
UpdateTemplate(c) ==
    /\ MayCall(c)
    /\ \E t \in TemplateIds, isDefault \in {"true", "false", "absent"} :
         IF ~templates[t].exists
         THEN /\ tcalls' = EndCall(NewCall(c, "updateTemplate", t, isDefault = "true"), c,
                                   "error")
              /\ UNCHANGED templates
         ELSE /\ templates' = [templates EXCEPT
                                 ![t].isDefault = IF isDefault = "absent" THEN @
                                                  ELSE isDefault = "true"]
              /\ tcalls' = IF isDefault = "true"
                           THEN NewCall(c, "updateTemplate", t, TRUE)
                           ELSE EndCall(NewCall(c, "updateTemplate", t, FALSE), c, "ok")
    /\ tcount' = tcount + 1
    /\ UNCHANGED <<parserVars, genVars, storeVars, calls, validationVars, proxyVars, appVars>>

\* deleteTemplate: deleteDoc
DeleteTemplate(c) ==
    /\ MayCall(c)
    /\ \E t \in TemplateIds :
         /\ templates' = [templates EXCEPT ![t] = [exists |-> FALSE, isDefault |-> FALSE, usageCount |-> 0]]
         /\ tcalls' = EndCall(NewCall(c, "deleteTemplate", t, FALSE), c, "ok")
    /\ tcount' = tcount + 1
    /\ UNCHANGED <<parserVars, genVars, storeVars, calls, validationVars, proxyVars, appVars>>

\* setUserDefaultTemplate(userId, t) is called.
CallSetUserDefault(c, t) ==
    /\ MayCall(c)
    /\ tcalls' = NewCall(c, "setUserDefaultTemplate", t, TRUE)
    /\ tcount' = tcount + 1
    /\ UNCHANGED <<templates, parserVars, genVars, storeVars, calls, validationVars, proxyVars, appVars>>

\* setUserDefaultTemplate: getDocs of the user's default templates
QueryDefaults(c) ==
    /\ tcalls[c].pc = "query"
    /\ tcalls' = [tcalls EXCEPT ![c].pc = "unset", ![c].snapshot = Snapshot(Defaults),
                                ![c].toUnset = Snapshot(Defaults)]
    /\ UNCHANGED <<templates, tcount, parserVars, genVars, storeVars, calls,
                   validationVars, proxyVars, appVars>>

\* setUserDefaultTemplate: one updateDoc(doc.ref, { isDefault: false }) of
\* the batch; it throws when the document is gone.
UnsetDefault(c) ==
    /\ tcalls[c].pc = "unset"
    /\ \E t \in tcalls[c].toUnset :
         IF templates[t].exists
         THEN /\ templates' = [templates EXCEPT ![t].isDefault = FALSE]
              /\ tcalls' = [tcalls EXCEPT ![c].toUnset = @ \ {t}]
         ELSE /\ tcalls' = EndCall(tcalls, c, "error")
              /\ UNCHANGED templates
    /\ UNCHANGED <<tcount, parserVars, genVars, storeVars, calls, validationVars, proxyVars, appVars>>

\* setUserDefaultTemplate: after Promise.all(batch), updateDoc(newDefaultRef,
\* { isDefault: true }), which throws when the target does not exist.
SetDefault(c) ==
    /\ tcalls[c].pc = "unset"
    /\ tcalls[c].toUnset = {}
    /\ IF templates[tcalls[c].templateId].exists
       THEN /\ templates' = [templates EXCEPT ![tcalls[c].templateId].isDefault = TRUE]
            /\ tcalls' = EndCall(tcalls, c, "ok")
       ELSE /\ tcalls' = EndCall(tcalls, c, "error")
            /\ UNCHANGED templates
    /\ UNCHANGED <<tcount, parserVars, genVars, storeVars, calls, validationVars, proxyVars, appVars>>

SetUserDefaultSteps(c) == QueryDefaults(c) \/ UnsetDefault(c) \/ SetDefault(c)

\* One caller, whose calls do not overlap.
TemplateSpec ==
    /\ ParserInit
    /\ [][\/ SaveTemplate(1) \/ UpdateTemplate(1) \/ DeleteTemplate(1)
          \/ \E t \in TemplateIds : CallSetUserDefault(1, t)
          \/ SetUserDefaultSteps(1)]_vars

\* C18: after any sequence of non-overlapping, successfully completed
\* saveTemplate, updateTemplate, setUserDefaultTemplate and deleteTemplate
\* calls of one user, at most one of the user's templates has isDefault =
\* true, and after a successful setUserDefaultTemplate(userId, t) the
\* template t is the one that is default.
C18_AtMostOneDefault ==
    tcalls[1].pc \in {"idle", "done"} =>
        /\ Cardinality(Defaults) <= 1
        /\ (tcalls[1].op = "setUserDefaultTemplate" /\ tcalls[1].status = "ok")
             => Defaults = {tcalls[1].templateId}

C18_Witness ==
    /\ tcalls[1].pc = "done"
    /\ tcalls[1].op = "setUserDefaultTemplate"
    /\ tcalls[1].status = "ok"
    /\ tcount = MaxTemplateCalls
    /\ Cardinality({t \in TemplateIds : templates[t].exists}) >= 2

\* Two callers whose setUserDefaultTemplate calls interleave, on a user whose
\* templates all exist, at most one of them the default.
TemplateRaceInit ==
    /\ ParserIdle /\ GenIdle /\ StoreEmpty /\ SubmitIdle /\ ValidationIdle /\ ProxyIdle
    /\ AppIdle
    /\ \E d \in SUBSET TemplateIds :
         /\ Cardinality(d) <= 1
         /\ templates = [t \in TemplateIds |-> [exists |-> TRUE, isDefault |-> t \in d, usageCount |-> 0]]
    /\ tcalls = [c \in 1..2 |-> IdleTemplateCall]
    /\ tcount = 0

TemplateRaceSpec ==
    /\ TemplateRaceInit
    /\ [][\E c \in 1..2 :
            \/ \E t \in TemplateIds : CallSetUserDefault(c, t)
            \/ SetUserDefaultSteps(c)]_vars

\* C19: once two concurrent setUserDefaultTemplate calls of the same user
\* with different target templates, their steps interleaved arbitrarily, have
\* both completed, at most one of the user's templates has isDefault = true.
C19_RaceLeavesOneDefault ==
    (/\ tcalls[1].pc = "done" /\ tcalls[2].pc = "done"
     /\ tcalls[1].templateId # tcalls[2].templateId)
    => Cardinality(Defaults) <= 1

(***************************************************************************)
(* The completion proxy: the handler of netlify/functions/openai-proxy.js, *)
(* run by a platform that ends a function PlatformCeiling seconds after    *)
(* its invocation.  Time passes while the handler awaits the upstream.     *)
(* The upstream's response body is a stream of bytes: lines ended by "\n", *)
(* each a "data: " prefix followed by the JSON of a content fragment or by *)
(* [DONE].  A fragment is written as its bytes: "a" and "b" are characters *)
(* of one byte, "e1" "e2" are the two bytes of one character, "E".         *)
(***************************************************************************)
PlatformCeiling == 10
InternalTimeout == 8
DefaultMaxTokens == 1500

\* The request bodies a caller may send.
RequestBodies ==
    [model : {"gpt-4", "gpt-4o-mini"}, stream : BOOLEAN,
     max_tokens : {0, 100, 4000}, messages : 0..1]

\* The lines the upstream sends.
EventLines ==
    {<<"data: ", "a">>, <<"data: ", "b">>, <<"data: ", "e1", "e2">>,
     <<"data: ", "[DONE]">>}

\* The ways the transport delivers a stream of bytes: as at most n chunks,
\* none of them empty.
RECURSIVE Chunkings(_, _)
Chunkings(bytes, n) ==
    IF bytes = <<>> THEN {<<>>}
    ELSE IF n = 0 THEN {}
    ELSE UNION {{<<SubSeq(bytes, 1, k)>> \o rest :
                   rest \in Chunkings(SubSeq(bytes, k + 1, Len(bytes)), n - 1)} :
                k \in 1..Len(bytes)}

\* chunk.toString(): the characters of a chunk's bytes.  The bytes of a
\* character that the chunk holds only in part decode to U+FFFD, "?".
RECURSIVE toString(_)
toString(bytes) ==
    IF bytes = <<>> THEN <<>>
    ELSE IF Head(bytes) = "e1"
         THEN IF Len(bytes) >= 2 /\ bytes[2] = "e2"
              THEN <<"E">> \o toString(Tail(Tail(bytes)))
              ELSE <<"?">> \o toString(Tail(bytes))
    ELSE IF Head(bytes) = "e2" THEN <<"?">> \o toString(Tail(bytes))
    ELSE <<Head(bytes)>> \o toString(Tail(bytes))

\* The handler awaits the upstream: the fetch, or the next chunk of the body.
Waiting == hpc \in {"fetch", "stream"}

\* The handler is invoked: it answers 400 to a body without messages, and
\* otherwise builds requestBody and calls fetch.
Invoke(bodies) ==
    /\ hpc = "idle"
    /\ \E body \in bodies :
         IF body.messages = 0
         THEN hpc' = "returned" /\ statusCode' = 400 /\ UNCHANGED requestBody
         ELSE /\ requestBody' =
                   [body EXCEPT !.model = "gpt-4o-mini",
                                !.max_tokens = IF @ # 0 THEN @ ELSE DefaultMaxTokens,
                                !.stream = TRUE]
              /\ hpc' = "fetch"
              /\ UNCHANGED statusCode
    /\ UNCHANGED <<elapsed, received, upstream, buffer, fullContent>>
    /\ UNCHANGED <<parserVars, genVars, storeVars, calls, validationVars, templateVars, appVars>>

\* A second passes while the handler awaits the upstream.
Tick ==
    /\ Waiting
    /\ elapsed < PlatformCeiling
    /\ elapsed' = elapsed + 1
    /\ UNCHANGED <<hpc, received, statusCode, requestBody, upstream, buffer, fullContent>>
    /\ UNCHANGED <<parserVars, genVars, storeVars, calls, validationVars, templateVars, appVars>>

\* await fetch(...) ends: the upstream answers (ok, with a body of at most
\* MaxEvents of the given lines, delivered in at most MaxStreamChunks chunks;
\* or with an error status that the handler returns), or fetch throws and
\* the catch returns 500.
FetchEnds(lines) ==
    /\ hpc = "fetch"
    /\ \E outcome \in {200, 429, 500, 0} :
         IF outcome = 200
         THEN /\ hpc' = "stream"
              /\ \E sent \in SeqsUpTo(lines, MaxEvents) :
                   LET Bytes[k \in 0..Len(sent)] ==
                           IF k = 0 THEN <<>> ELSE Bytes[k - 1] \o sent[k] \o <<"\n">>
                   IN upstream' \in Chunkings(Bytes[Len(sent)], MaxStreamChunks)
              /\ UNCHANGED statusCode
         ELSE /\ hpc' = "returned"
              /\ statusCode' = IF outcome = 0 THEN 500 ELSE outcome
              /\ UNCHANGED upstream
    /\ UNCHANGED <<elapsed, received, requestBody, buffer, fullContent>>
    /\ UNCHANGED <<parserVars, genVars, storeVars, calls, validationVars, templateVars, appVars>>

\* for await (const chunk of reader): the next chunk arrives and the handler
\* splits the buffer into lines, keeps the last, unfinished one, and appends
\* the content of the data lines up to a [DONE] line.
ReadChunk ==
    /\ hpc = "stream"
    /\ received < Len(upstream)
    /\ received' = received + 1
    /\ LET text == buffer \o toString(upstream[received + 1])
           \* text.split('\n')
           split[k \in 0..Len(text)] ==
               IF k = 0 THEN <<<<>>>>
               ELSE IF text[k] = "\n" THEN split[k - 1] \o <<<<>>>>
               ELSE [split[k - 1] EXCEPT ![Len(split[k - 1])] = @ \o <<text[k]>>]
           lines == split[Len(text)]
           \* for (const line of lines), without the popped last line
           content[k \in 0..(Len(lines) - 1)] ==
               IF k = 0 THEN [text |-> fullContent, broke |-> FALSE]
               ELSE LET line == lines[k]
                    IN IF content[k - 1].broke \/ line = <<>> \/ Head(line) # "data: "
                       THEN content[k - 1]
                       ELSE IF Tail(line) = <<"[DONE]">>
                       THEN [content[k - 1] EXCEPT !.broke = TRUE]
                       ELSE [content[k - 1] EXCEPT !.text = @ \o Tail(line)]
       IN /\ buffer' = lines[Len(lines)]
          /\ fullContent' = content[Len(lines) - 1].text
    /\ UNCHANGED <<hpc, elapsed, statusCode, requestBody, upstream>>
    /\ UNCHANGED <<parserVars, genVars, storeVars, calls, validationVars, templateVars, appVars>>

\* The stream ends and the handler returns the accumulated content, or the
\* stream breaks and the catch returns 500.
StreamEnds ==
    /\ hpc = "stream"
    /\ \E code \in {200, 500} :
         /\ code = 200 => received = Len(upstream)
         /\ statusCode' = code
    /\ hpc' = "returned"
    /\ UNCHANGED <<elapsed, received, requestBody, upstream, buffer, fullContent>>
    /\ UNCHANGED <<parserVars, genVars, storeVars, calls, validationVars, templateVars, appVars>>

\* The platform ends the function at its ceiling.
PlatformKill ==
    /\ Waiting
    /\ elapsed = PlatformCeiling
    /\ hpc' = "killed"
    /\ UNCHANGED <<elapsed, received, statusCode, requestBody, upstream, buffer, fullContent>>
    /\ UNCHANGED <<parserVars, genVars, storeVars, calls, validationVars, templateVars, appVars>>

\* Any request, an upstream that sends only "a" fragments, and time.
ProxySpec ==
    /\ ParserInit
    /\ [][\/ Invoke(RequestBodies) \/ Tick \/ FetchEnds({<<"data: ", "a">>})
          \/ ReadChunk \/ StreamEnds \/ PlatformKill]_vars

\* One request and any upstream stream, however it is split.
StreamSpec ==
    /\ ParserInit
    /\ [][\/ Invoke({[model |-> "gpt-4", stream |-> FALSE, max_tokens |-> 0,
                      messages |-> 1]})
          \/ FetchEnds(EventLines) \/ ReadChunk \/ StreamEnds]_vars

\* C20: a generation call whose upstream takes longer than the per-call
\* timeout (8 s, below the 10 s platform ceiling) is ended by the handler
\* itself with an error before the ceiling is reached: the handler never
\* keeps waiting on the upstream past the internal timeout, and is never
\* ended by the platform.
C20_EndsAtInternalTimeout ==
    /\ Waiting => elapsed <= InternalTimeout
    /\ hpc # "killed"

\* The content fragments of the data lines the upstream sent before [DONE],
\* in the order sent: the stream read as a whole.
SentBeforeDone ==
    LET bytes[k \in 0..Len(upstream)] ==
            IF k = 0 THEN <<>> ELSE bytes[k - 1] \o upstream[k]
        text == toString(bytes[Len(upstream)])
        upTo[k \in 0..Len(text)] ==
            IF k = 0 THEN [content |-> <<>>, line |-> <<>>, done |-> FALSE]
            ELSE LET u == upTo[k - 1]
                 IN IF u.done THEN u
                    ELSE IF text[k] # "\n" THEN [u EXCEPT !.line = @ \o <<text[k]>>]
                    ELSE IF u.line = <<"data: ", "[DONE]">> THEN [u EXCEPT !.done = TRUE]
                    ELSE IF u.line # <<>> /\ Head(u.line) = "data: "
                    THEN [u EXCEPT !.content = @ \o Tail(u.line), !.line = <<>>]
                    ELSE [u EXCEPT !.line = <<>>]
    IN upTo[Len(text)].content

\* C21: the proxy returns as content the concatenation, in arrival order, of
\* the content fragments of every data line received before [DONE], with
\* nothing lost, duplicated, reordered or appended after [DONE], however the
\* stream was split into chunks.
C21_ContentIsSentBeforeDone ==
    (hpc = "returned" /\ statusCode = 200) => fullContent = SentBeforeDone

\* C22: the request forwarded to the completion service uses gpt-4o-mini,
\* has stream = true and an output-token limit of at most 1500, whatever the
\* caller supplied.
C22_ForwardedRequestIsCapped ==
    hpc \in {"fetch", "stream"} =>
        /\ requestBody.model = "gpt-4o-mini"
        /\ requestBody.stream = TRUE
        /\ requestBody.max_tokens <= DefaultMaxTokens
(***************************************************************************)
(* Content formatting: analyzeCourseContent and formatContentForPrompt of  *)
(* QuizService, on strings taken by their lengths.  A section is the       *)
(* length of its trimmed content (raw), the paragraphs of that content     *)
(* once its markdown is cleaned (the pieces between "\n\n"), the length of *)
(* its title, and the length of its subtitle and key-term lines (info).    *)
(***************************************************************************)
\* A short section that analysis drops, a short valid one, one that is a
\* single code block (cleaned to "[Code Block]"), and oversized ones with and
\* without paragraph breaks, with and without subtitle and key-term lines.
SectionKinds ==
    {[raw |-> 10, paragraphs |-> <<10>>, title |-> 12, info |-> 0],
     [raw |-> 200, paragraphs |-> <<200>>, title |-> 12, info |-> 0],
     [raw |-> 250, paragraphs |-> <<12>>, title |-> 12, info |-> 0],
     [raw |-> 5202, paragraphs |-> <<2600, 2600>>, title |-> 12, info |-> 0],
     [raw |-> 5202, paragraphs |-> <<2600, 2600>>, title |-> 12, info |-> 1000],
     [raw |-> 6000, paragraphs |-> <<6000>>, title |-> 12, info |-> 0],
     [raw |-> 6000, paragraphs |-> <<6000>>, title |-> 12, info |-> 1000]}

\* The body of the loop of formatContentForPrompt for one section: the length
\* of sectionContent after truncation, and the length of fullSection.
FormatSection(section, maxSectionLength) ==
    LET paragraphs == section.paragraphs
        length == SumSeq(paragraphs) + 2 * (Len(paragraphs) - 1)
        \* for (const paragraph of paragraphs)
        kept[k \in 0..Len(paragraphs)] ==
            IF k = 0 THEN [usedLength |-> 0, truncated |-> 0, broke |-> FALSE]
            ELSE LET a == kept[k - 1]
                 IN IF a.broke THEN a
                    ELSE IF 10 * (a.usedLength + paragraphs[k]) < 8 * maxSectionLength
                    THEN [a EXCEPT !.usedLength = @ + paragraphs[k],
                                   !.truncated = @ + paragraphs[k] + 2]
                    ELSE [a EXCEPT !.broke = TRUE]
        truncatedContent == kept[Len(paragraphs)].truncated
        halfPoint == maxSectionLength \div 2
        sectionContent ==
            IF length > maxSectionLength
            THEN IF 2 * truncatedContent < maxSectionLength
                 THEN halfPoint + 31 + halfPoint    \* "\n\n[... content continues ...]\n\n"
                 ELSE truncatedContent + 28         \* "\n[... section continues ...]"
            ELSE length
    IN [content |-> sectionContent,
        \* "\n## SECTION: " title "\n" info "**Content:**\n" sectionContent "\n"
        full |-> 13 + section.title + 1 + section.info + 13 + sectionContent + 1]

\* formatContentForPrompt without the check of the running total: the
\* mutation of formatContentForPrompt.
formatContentForPromptNoLimit(sections) ==
    [length |-> SumSeq([k \in DOMAIN sections |->
                          FormatSection(sections[k],
                                        MaxTotalLength \div Len(sections)).full]),
     rendered |-> [k \in DOMAIN sections |-> k]]

formatContentForPrompt(sections) ==
    LET maxSectionLength == MaxTotalLength \div Len(sections)
        formatted[k \in 0..Len(sections)] ==
            IF k = 0 THEN [length |-> 0, rendered |-> <<>>, broke |-> FALSE]
            ELSE LET a == formatted[k - 1]
                     fullSection == FormatSection(sections[k], maxSectionLength).full
                 IN IF a.broke \/ SumSeq(sections[k].paragraphs) = 0 THEN a
                    ELSE IF a.length + fullSection > MaxTotalLength
                    THEN [a EXCEPT !.broke = TRUE]
                    ELSE [a EXCEPT !.length = @ + fullSection,
                                   !.rendered = Append(@, k)]
    IN IF sections = <<>> THEN [length |-> 0, rendered |-> <<>>]
       ELSE [length |-> formatted[Len(sections)].length,
             rendered |-> formatted[Len(sections)].rendered]

\* getDoc: the course document is loaded, with its sections' content.
LoadCourseContent ==
    /\ vpc = "idle"
    /\ \E sections \in SeqsUpTo(SectionKinds, MaxCourseSections) :
         /\ courseContent' = sections
         /\ course' = [k \in DOMAIN sections |-> sections[k].raw]
    /\ vpc' = "loaded"
    /\ UNCHANGED <<sectionsWithSubtitles, contentForPrompt, validation, thrownMessage,
                   callerMessage, boardVars, uiVars>>
    /\ UNCHANGED <<parserVars, genVars, storeVars, calls, templateVars, proxyVars>>

\* startQuiz after the validation: the sections are analysed (those shorter
\* than 50 characters are dropped) and formatted; no section, or less than
\* 100 characters of formatted content, is an error.
FormatContent ==
    /\ vpc = "validated"
    /\ LET analyzedSections ==
               FilterSeq(courseContent,
                         {section \in Range(courseContent) : section.raw >= MinSectionLength})
           formatted == formatContentForPrompt(analyzedSections)
           \* contentForPrompt.trim(): without the first and the last "\n"
           trimmed == IF formatted.length = 0 THEN 0 ELSE formatted.length - 2
           error == IF analyzedSections = <<>>
                    THEN "No valid content sections found in course"
                    ELSE IF trimmed < MinFormattedLength
                    THEN "Content formatting failed"
                    ELSE ""
       IN /\ sectionsWithSubtitles' = analyzedSections
          /\ contentForPrompt' =
                 IF analyzedSections = <<>> THEN contentForPrompt ELSE formatted
          /\ IF error # ""
             THEN /\ thrownMessage' = <<error>>
                  /\ callerMessage' = <<StartQuizCatch(<<error>>)>>
                  /\ vpc' = "failed"
             ELSE /\ UNCHANGED <<thrownMessage, callerMessage>>
                  /\ vpc' = "formatted"
    /\ UNCHANGED <<course, courseContent, validation, boardVars, uiVars>>
    /\ UNCHANGED <<parserVars, genVars, storeVars, calls, templateVars, proxyVars>>

FormatSpec == ParserInit /\ [][LoadCourseContent \/ ValidateCourse \/ FormatContent]_vars

\* C23: formatContentForPrompt never returns more than maxTotalLength (5000)
\* characters, and the sections it renders are a prefix of its input
\* sections in input order: once a section does not fit, no later one is
\* added.
C23_WithinLimitAndPrefix ==
    /\ contentForPrompt.length <= MaxTotalLength
    /\ contentForPrompt.rendered = [k \in 1..Len(contentForPrompt.rendered) |-> k]
    /\ Len(contentForPrompt.rendered) <= Len(sectionsWithSubtitles)

\* A section did not fit and a later section, which would have fitted in the
\* remaining length, was left out.
C23_Witness ==
    /\ vpc = "formatted"
    /\ \E j \in DOMAIN sectionsWithSubtitles :
         /\ j > Len(contentForPrompt.rendered) + 1
         /\ contentForPrompt.length
              + FormatSection(sectionsWithSubtitles[j],
                              MaxTotalLength \div Len(sectionsWithSubtitles)).full
            <= MaxTotalLength

\* C24: for every course that passes validation and yields at least one
\* analysed section, the truncated first section fits its budget,
\* formatContentForPrompt returns non-empty content containing at least that
\* section, and startQuiz does not fail with a content-formatting error.
C24_OversizedIsPartialCoverage ==
    (vpc \in {"formatted", "failed"} /\ validation.isValid /\ sectionsWithSubtitles # <<>>)
    => /\ FormatSection(sectionsWithSubtitles[1],
                        MaxTotalLength \div Len(sectionsWithSubtitles)).content
          <= MaxTotalLength \div Len(sectionsWithSubtitles)
       /\ contentForPrompt.length > 0
       /\ 1 \in Range(contentForPrompt.rendered)
       /\ vpc # "failed"
(***************************************************************************)
(* The leaderboard: getLeaderboard of QuizService over the quizResults     *)
(* collection.                                                             *)
(***************************************************************************)
\* The comparator that looks at the score only: the mutation of Before.
BeforeByScore(a, b) == a.score > b.score

\* The comparator of both sorts: a goes before b when it returns a negative
\* number for (a, b).
Before(a, b) ==
    IF a.score # b.score THEN b.score - a.score < 0
    ELSE a.timeTaken - b.timeTaken < 0

getLeaderboard(docs, courseId, topCount) ==
    LET \* Array.prototype.sort with the comparator: stable
        Sort(list) ==
            LET sorted[k \in 0..Len(list)] ==
                    IF k = 0 THEN <<>>
                    ELSE LET e == list[k]
                             at == Cardinality({j \in DOMAIN sorted[k - 1] :
                                                  ~Before(e, sorted[k - 1][j])})
                         IN SubSeq(sorted[k - 1], 1, at) \o <<e>>
                            \o SubSeq(sorted[k - 1], at + 1, k - 1)
            IN sorted[Len(list)]
        snapshot ==
            FilterSeq(docs, {d \in Range(docs) :
                               /\ d.isCompleted
                               /\ courseId # "" => d.courseId = courseId})
        entry(d) == [id |-> d.id, userId |-> d.userId, score |-> d.score,
                     timeTaken |-> d.attemptedAt - d.generatedAt]
        \* the keys of entries, in the order of their insertion
        users[k \in 0..Len(snapshot)] ==
            IF k = 0 THEN <<>>
            ELSE IF snapshot[k].userId \in Range(users[k - 1]) THEN users[k - 1]
            ELSE Append(users[k - 1], snapshot[k].userId)
        userEntries(u) ==
            LET own == FilterSeq(snapshot, {d \in Range(snapshot) : d.userId = u})
            IN [k \in DOMAIN own |-> entry(own[k])]
        keys == users[Len(snapshot)]
        bestPerUser == [k \in DOMAIN keys |-> Sort(userEntries(keys[k]))[1]]
    IN Slice0(Sort(bestPerUser), topCount)

\* A quiz result is in the store: one startQuiz created and submitQuiz
\* completed with a score, some time after it was generated, or one left
\* uncompleted.
StoreResult ==
    /\ bpc = "idle"
    /\ Len(quizResults) < MaxResults
    /\ \E d \in {[userId |-> u, courseId |-> "c1", attemptedAt |-> t, score |-> s,
                  isCompleted |-> TRUE] : u \in {"u1", "u2"}, t \in {50, 200}, s \in {80, 90}}
             \cup {[userId |-> "u2", courseId |-> "c2", attemptedAt |-> 50, score |-> 90,
                    isCompleted |-> TRUE],
                   [userId |-> "u1", courseId |-> "c1", attemptedAt |-> 0, score |-> 0,
                    isCompleted |-> FALSE]} :
         quizResults' =
             Append(quizResults,
                    [NewQuizResult("r" \o ToString(Len(quizResults) + 1), d.userId, OtherResponse)
                       EXCEPT !.courseId = d.courseId, !.attemptedAt = d.attemptedAt,
                              !.score = d.score, !.isCompleted = d.isCompleted])
    /\ UNCHANGED <<quizAnswers, now, boardVars, formatVars, uiVars>>
    /\ UNCHANGED <<parserVars, genVars, calls, validationVars, templateVars, proxyVars>>

\* getLeaderboard(courseId, topCount) is called and returns.
GetLeaderboard ==
    /\ bpc = "idle"
    /\ \E courseId \in {"", "c1"}, topCount \in 0..MaxTopCount :
         /\ boardArgs' = [courseId |-> courseId, topCount |-> topCount]
         /\ leaderboard' = getLeaderboard(quizResults, courseId, topCount)
    /\ bpc' = "returned"
    /\ UNCHANGED <<storeVars, formatVars, uiVars>>
    /\ UNCHANGED <<parserVars, genVars, calls, validationVars, templateVars, proxyVars>>

LeaderboardSpec == ParserInit /\ [][StoreResult \/ GetLeaderboard]_vars

\* C25: getLeaderboard returns at most topCount entries, at most one per
\* user; each is that user's best completed attempt (highest score, ties
\* broken by lowest elapsed time), and the list is ordered by score
\* descending, then elapsed time ascending.  The users left out are those
\* that topCount leaves no room for, none of them better than one returned.
C25_LeaderboardIsBestPerUser ==
    bpc = "returned" =>
        LET better(a, b) ==
                a.score > b.score \/ (a.score = b.score /\ a.timeTaken < b.timeTaken)
            \* the completed attempts the call is about, as entries
            CompletedAttempts ==
                {[id |-> d.id, userId |-> d.userId, score |-> d.score,
                  timeTaken |-> d.attemptedAt - d.generatedAt] :
                   d \in {d \in Range(quizResults) :
                            /\ d.isCompleted
                            /\ boardArgs.courseId # "" => d.courseId = boardArgs.courseId}}
            users == {a.userId : a \in CompletedAttempts}
        IN /\ Len(leaderboard) = Min(boardArgs.topCount, Cardinality(users))
           /\ \A k, j \in DOMAIN leaderboard :
                k # j => leaderboard[k].userId # leaderboard[j].userId
           /\ \A k \in DOMAIN leaderboard :
                /\ leaderboard[k] \in CompletedAttempts
                /\ \A a \in CompletedAttempts :
                     a.userId = leaderboard[k].userId => ~better(a, leaderboard[k])
           /\ \A k, j \in DOMAIN leaderboard :
                k < j => ~better(leaderboard[j], leaderboard[k])
           /\ \A a \in CompletedAttempts :
                (\A k \in DOMAIN leaderboard : leaderboard[k].userId # a.userId)
                => \A k \in DOMAIN leaderboard : ~better(a, leaderboard[k])

\* The attempts u1: 80 in 50, u1: 90 in 200, u2: 90 in 50 with topCount 2
\* give u2's attempt, then u1's 90 in 200.
C25_Witness ==
    /\ bpc = "returned"
    /\ boardArgs.topCount = 2
    /\ [k \in DOMAIN quizResults |->
          <<quizResults[k].userId, quizResults[k].score,
            quizResults[k].attemptedAt - quizResults[k].generatedAt,
            quizResults[k].isCompleted>>]
       = <<<<"u1", 80, 50, TRUE>>, <<"u1", 90, 200, TRUE>>, <<"u2", 90, 50, TRUE>>>>
    /\ leaderboard = <<[id |-> "r3", userId |-> "u2", score |-> 90, timeTaken |-> 50],
                       [id |-> "r2", userId |-> "u1", score |-> 90, timeTaken |-> 200]>>
(***************************************************************************)
(* The quiz page: the AIQuizGenerator component and its translateQuiz.     *)
(* A state is what the page holds once a handler, the state updates it     *)
(* made and the effect they trigger have run.                              *)
(***************************************************************************)
\* The quiz startQuiz returns to the page: n questions of two options, the
\* odd ones with an explanation.
PageQuiz(n) ==
    [id |-> 0, title |-> "Quiz",
     questions |-> [k \in 1..n |->
                      [question |-> "Q" \o ToString(k), options |-> <<"A", "B">>,
                       correctAnswer |-> k % 2,
                       explanation |-> IF k % 2 = 1 THEN "why" ELSE ""]]]

\* const displayQuiz = enableTranslation && translatedQuiz ? translatedQuiz : quiz
displayQuiz ==
    IF ui.enableTranslation /\ ui.translatedQuiz # NoQuiz THEN ui.translatedQuiz
    ELSE ui.quiz

\* Promise.all that places a result where the next one is missing, in the
\* order of completion: the mutation of Settle.
SettleInCompletionOrder(results, index, value) ==
    [results EXCEPT ![CHOOSE j \in DOMAIN results :
                        results[j] = "" /\ \A h \in 1..(j - 1) : results[h] # ""] = value]

\* Promise.all: the result of the promise at an index is placed at that index.
Settle(results, index, value) == [results EXCEPT ![index] = value]

\* The page is rendered with the state u and the effect on
\* [enableTranslation, quiz] runs: it calls translateQuiz(quiz), or it clears
\* the translation when the toggle is off.
RunEffect(u) ==
    IF u.enableTranslation /\ u.quiz # NoQuiz /\ ~u.isTranslating
    THEN /\ ui' = [u EXCEPT !.isTranslating = TRUE]
         /\ job' = [source |-> u.quiz, titleDone |-> FALSE, title |-> "",
                    questions |-> [k \in DOMAIN u.quiz.questions |->
                                     [stage |-> "question", question |-> "",
                                      options |-> [j \in DOMAIN u.quiz.questions[k].options |-> ""],
                                      explanation |-> ""]]]
    ELSE /\ ui' = IF ~u.enableTranslation THEN [u EXCEPT !.translatedQuiz = NoQuiz] ELSE u
         /\ UNCHANGED job

\* The switch "Enable Zulu Translation", shown while no quiz is loaded.
ToggleTranslation ==
    /\ ui.quiz = NoQuiz /\ ~ui.generating
    /\ RunEffect([ui EXCEPT !.enableTranslation = ~@])
    /\ UNCHANGED <<formatVars, boardVars>>
    /\ UNCHANGED <<parserVars, genVars, storeVars, calls, validationVars, templateVars, proxyVars>>

\* generateQuiz up to its await of startQuiz.
StartGenerate ==
    /\ ui.quiz = NoQuiz /\ ~ui.generating /\ ~ui.isTranslating
    /\ ui.generated < MaxGenerations
    /\ ui' = [ui EXCEPT !.generating = TRUE]
    /\ UNCHANGED <<job, formatVars, boardVars>>
    /\ UNCHANGED <<parserVars, genVars, storeVars, calls, validationVars, templateVars, proxyVars>>

\* startQuiz returns one of the given quizzes, which the page stores, or it
\* throws.
GenerateReturns(quizzes) ==
    /\ ui.generating
    /\ \/ \E q \in quizzes :
            RunEffect([ui EXCEPT !.quiz = [q EXCEPT !.id = ui.generated + 1],
                                 !.answers = [k \in DOMAIN q.questions |-> -1],
                                 !.translatedQuiz = NoQuiz,
                                 !.generating = FALSE,
                                 !.generated = @ + 1])
       \/ ui' = [ui EXCEPT !.generating = FALSE] /\ UNCHANGED job
    /\ UNCHANGED <<formatVars, boardVars>>
    /\ UNCHANGED <<parserVars, genVars, storeVars, calls, validationVars, templateVars, proxyVars>>

\* One translateText call of the translateQuiz in progress returns: the
\* translation, or the original text when it failed.  The title is awaited
\* first; then, for all questions at once, the question text, then all its
\* options at once, then its explanation if it has one.  When the last call
\* has returned the page stores the translated quiz.
TranslateReturns(outcomes) ==
    /\ ui.isTranslating
    /\ \E ok \in outcomes :
         LET translateText(text) == IF ok THEN "zu:" \o text ELSE text
             original == job.source.questions
             pending ==
                 IF ~job.titleDone THEN {<<0, "title", 0>>}
                 ELSE {<<k, job.questions[k].stage, 0>> :
                         k \in {k \in DOMAIN job.questions :
                                  job.questions[k].stage \in {"question", "explanation"}}}
                      \cup UNION {{<<k, "options", j>> :
                                      j \in {j \in DOMAIN job.questions[k].options :
                                               job.questions[k].options[j] = ""}} :
                                   k \in {k \in DOMAIN job.questions :
                                            job.questions[k].stage = "options"}}
         IN \E call \in pending :
              LET k == call[1]
                  j == call[3]
                  options == Settle(job.questions[k].options, j,
                                    translateText(original[k].options[j]))
                  next ==
                      IF call[2] = "title"
                      THEN [job EXCEPT !.titleDone = TRUE,
                                       !.title = translateText(job.source.title)]
                      ELSE IF call[2] = "question"
                      THEN [job EXCEPT !.questions[k].question =
                                           translateText(original[k].question),
                                       !.questions[k].stage = "options"]
                      ELSE IF call[2] = "options"
                      THEN [job EXCEPT !.questions[k].options = options,
                                       !.questions[k].stage =
                                           IF \E h \in DOMAIN options : options[h] = ""
                                           THEN "options"
                                           ELSE IF original[k].explanation # ""
                                           THEN "explanation"
                                           ELSE "done"]
                      ELSE [job EXCEPT !.questions[k].explanation =
                                           translateText(original[k].explanation),
                                       !.questions[k].stage = "done"]
                  translatedQuizData ==
                      [job.source EXCEPT
                         !.title = next.title,
                         !.questions = [q \in DOMAIN original |->
                                          [original[q] EXCEPT
                                             !.question = next.questions[q].question,
                                             !.options = next.questions[q].options,
                                             !.explanation = next.questions[q].explanation]]]
              IN /\ job' = next
                 /\ ui' = IF next.titleDone
                             /\ \A q \in DOMAIN next.questions : next.questions[q].stage = "done"
                          THEN [ui EXCEPT !.translatedQuiz = translatedQuizData,
                                          !.isTranslating = FALSE]
                          ELSE ui
    /\ UNCHANGED <<formatVars, boardVars>>
    /\ UNCHANGED <<parserVars, genVars, storeVars, calls, validationVars, templateVars, proxyVars>>

\* handleAnswerSelect on a question of the quiz displayed.
AnswerSelect ==
    /\ displayQuiz # NoQuiz /\ ~ui.quizCompleted
    /\ \E k \in DOMAIN ui.answers, answerIndex \in {0, 1} :
         ui' = [ui EXCEPT !.answers[k] = answerIndex]
    /\ UNCHANGED <<job, formatVars, boardVars>>
    /\ UNCHANGED <<parserVars, genVars, storeVars, calls, validationVars, templateVars, proxyVars>>

\* handleSubmitQuiz, once all questions are answered.
SubmitQuiz ==
    /\ displayQuiz # NoQuiz /\ ~ui.quizCompleted
    /\ ui.quiz # NoQuiz
    /\ \A k \in DOMAIN ui.answers : ui.answers[k] >= 0
    /\ ui' = [ui EXCEPT !.quizCompleted = TRUE]
    /\ UNCHANGED <<job, formatVars, boardVars>>
    /\ UNCHANGED <<parserVars, genVars, storeVars, calls, validationVars, templateVars, proxyVars>>

\* handleResetQuiz: "Generate New Quiz", on the results of a completed quiz.
ResetQuiz ==
    /\ ui.quizCompleted
    /\ RunEffect([ui EXCEPT !.quiz = NoQuiz, !.answers = <<>>, !.quizCompleted = FALSE])
    /\ UNCHANGED <<formatVars, boardVars>>
    /\ UNCHANGED <<parserVars, genVars, storeVars, calls, validationVars, templateVars, proxyVars>>

\* The translation of one quiz, whose translateText calls return in any
\* order and may fail.
TranslateSpec ==
    /\ ParserInit
    /\ [][\/ ToggleTranslation \/ StartGenerate
          \/ GenerateReturns({PageQuiz(n) : n \in 1..MaxQuizQuestions})
          \/ TranslateReturns(BOOLEAN)]_vars

\* The page, with quizzes of one question and translations that succeed.
PageSpec ==
    /\ ParserInit
    /\ [][\/ ToggleTranslation \/ StartGenerate \/ GenerateReturns({PageQuiz(1)})
          \/ TranslateReturns({TRUE}) \/ AnswerSelect \/ SubmitQuiz \/ ResetQuiz]_vars

\* C26: for every completion order of the translate calls, failed ones
\* included, the translated quiz has the same number of questions in the
\* same order, each with the same number of options in the same order and
\* an unchanged correct-answer index.
C26_TranslationKeepsOrder ==
    ui.translatedQuiz # NoQuiz =>
        LET original == job.source.questions
            translated == ui.translatedQuiz.questions
            from(text) == {text, "zu:" \o text}
        IN /\ Len(translated) = Len(original)
           /\ \A k \in DOMAIN original :
                /\ translated[k].question \in from(original[k].question)
                /\ Len(translated[k].options) = Len(original[k].options)
                /\ \A j \in DOMAIN original[k].options :
                     translated[k].options[j] \in from(original[k].options[j])
                /\ translated[k].correctAnswer = original[k].correctAnswer

\* A translation of two questions is stored in which the second option of
\* the second question was translated and its first option was not.
C26_Witness ==
    /\ ui.translatedQuiz # NoQuiz
    /\ Len(ui.translatedQuiz.questions) = 2
    /\ ui.translatedQuiz.questions[2].options = <<"A", "zu:B">>
    /\ ui.translatedQuiz.questions[1].question = "zu:Q1"

\* C29: in every reachable state of the page the displayed quiz is null
\* whenever no quiz is loaded, and a translated quiz that is displayed was
\* derived from the quiz that is loaded.
C29_DisplayedQuizIsCurrent ==
    /\ ui.quiz = NoQuiz => displayQuiz = NoQuiz
    /\ (ui.enableTranslation /\ ui.translatedQuiz # NoQuiz)
       => ui.translatedQuiz.id = ui.quiz.id
(***************************************************************************)
(* Two submitQuiz calls for the quiz result r1, both by its owner, whose   *)
(* store reads and writes interleave.                                      *)
(***************************************************************************)
SubmitRaceSpec ==
    /\ SubmitInit
    /\ [][\E c \in 1..2 :
            \/ /\ calls[c].pc = "idle"
               /\ SubmitLoad(c, FewSubmissions)
               /\ calls'[c].quizResultId = "r1" /\ calls'[c].userId = "u1"
            \/ SubmitAnswer(c)
            \/ SubmitFinish(c)]_vars

\* C27: of two concurrent submitQuiz calls for the same quiz result by its
\* owner at most one succeeds, and the quizAnswers records written for that
\* quiz result come from a single submission.
C27_OneConcurrentSubmitWins ==
    (\A c \in 1..2 : calls[c].pc = "done") =>
        /\ Cardinality({c \in 1..2 : calls[c].status = "ok"}) <= 1
        /\ Cardinality({quizAnswers[k].submittedAt : k \in DOMAIN quizAnswers}) <= 1
(***************************************************************************)
(* More on the prompt templates: a failed setUserDefaultTemplate, and      *)
(* incrementUsage.                                                         *)
(***************************************************************************)
\* C28: if setUserDefaultTemplate fails, the user's default is unchanged: the
\* template that was default before the call is still the one with
\* isDefault = true afterwards.
C28_FailedSetKeepsDefault ==
    (/\ tcalls[1].pc = "done"
     /\ tcalls[1].op = "setUserDefaultTemplate"
     /\ tcalls[1].status = "error")
    => Defaults = tcalls[1].snapshot

\* incrementUsage(userId, t) is called: getDoc, and if the document exists
\* its usageCount is read.
IncrementUsageRead(c, t) ==
    /\ MayCall(c)
    /\ tcalls' = IF templates[t].exists
                 THEN [NewCall(c, "incrementUsage", t, FALSE) EXCEPT
                         ![c].pc = "write",
                         ![c].currentCount = templates[t].usageCount]
                 ELSE EndCall(NewCall(c, "incrementUsage", t, FALSE), c, "ok")
    /\ tcount' = tcount + 1
    /\ UNCHANGED <<templates, parserVars, genVars, storeVars, calls, validationVars,
                   proxyVars, appVars>>

\* incrementUsage: updateDoc(docRef, { usageCount: currentCount + 1 }); an
\* error is logged and not thrown.
IncrementUsageWrite(c) ==
    /\ tcalls[c].pc = "write"
    /\ IF templates[tcalls[c].templateId].exists
       THEN templates' = [templates EXCEPT ![tcalls[c].templateId].usageCount =
                                               tcalls[c].currentCount + 1]
       ELSE UNCHANGED templates
    /\ tcalls' = EndCall(tcalls, c, "ok")
    /\ UNCHANGED <<tcount, parserVars, genVars, storeVars, calls, validationVars,
                   proxyVars, appVars>>

\* Two callers of incrementUsage on a user's templates, which all exist
\* with usageCount 0; a caller's calls follow one another.
UsageSpec ==
    /\ TemplateRaceInit
    /\ [][\E c \in 1..2 :
            \/ \E t \in TemplateIds : IncrementUsageRead(c, t)
            \/ IncrementUsageWrite(c)]_vars

\* C30: a template's usageCount equals the number of incrementUsage calls
\* completed for it, whether the calls were sequential or concurrent: once
\* no call is in progress, the usageCounts have grown by one per call made.
C30_UsageCountsEveryCall ==
    (\A c \in 1..2 : tcalls[c].pc \in {"idle", "done"})
    => SumSeq([t \in TemplateIds |-> templates[t].usageCount]) = tcount
====
